---------------------------- MODULE Spec2Model ----------------------------
(***************************************************************************)
(* Model of the decline-curve engine (packages/engine/src/decline.ts):     *)
(* fitExponential, fitHyperbolic (Levenberg-Marquardt) and selectBestFit.  *)
(*                                                                         *)
(* JavaScript numbers are IEEE doubles.  They are modelled by decimal      *)
(* floating-point values [m, e] (value m * 10^e) with a four-digit         *)
(* mantissa, the doubles' exponent range (overflow to Infinity, underflow  *)
(* to 0) and the special values NaN, Infinity and -Infinity.               *)
(***************************************************************************)
EXTENDS Integers, Sequences, FiniteSets, TLC

(***************************************************************************)
(* Numbers                                                                 *)
(***************************************************************************)

\* exponent tag of the special values
SpecialExp == 999

NaN  == [m |-> 0,  e |-> SpecialExp]
PInf == [m |-> 1,  e |-> SpecialExp]
NInf == [m |-> -1, e |-> SpecialExp]
Zero == [m |-> 0,  e |-> 0]

IsNaN(x)    == x = NaN
IsInf(x)    == x = PInf \/ x = NInf
IsFinite(x) == x.e # SpecialExp

\* largest decimal exponent of a double (1.797e308) and the decimal exponent
\* below which a double underflows to 0 (4.9e-324)
MaxExp10 == 308
MinExp10 == -324

IAbs(n) == IF n < 0 THEN -n ELSE n
ISgn(n) == IF n < 0 THEN -1 ELSE IF n > 0 THEN 1 ELSE 0

RECURSIVE Pow10(_)
Pow10(k) == IF k <= 0 THEN 1 ELSE 10 * Pow10(k - 1)

\* m * 10^e brought to a four-digit mantissa, rounding half away from zero
RECURSIVE Norm(_, _)
Norm(m, e) ==
  IF m = 0 THEN Zero
  ELSE IF IAbs(m) >= 10000
       THEN Norm(ISgn(m) * ((IAbs(m) + 5) \div 10), e + 1)
  ELSE IF IAbs(m) < 1000
       THEN Norm(m * 10, e - 1)
  ELSE IF e + 3 > MaxExp10 THEN (IF m > 0 THEN PInf ELSE NInf)
  ELSE IF e + 3 < MinExp10 THEN Zero
  ELSE [m |-> m, e |-> e]

FromInt(n) == Norm(n, 0)
\* the decimal literal n / 10^d
Dec(n, d) == Norm(n, -d)

One == FromInt(1)

FSgn(x) == ISgn(x.m)
FNeg(x) == IF IsNaN(x) THEN NaN ELSE [m |-> -x.m, e |-> x.e]
FAbs(x) == IF x.m < 0 THEN FNeg(x) ELSE x

\* hi + lo for finite non-zero values, hi of the larger exponent
AddAligned(hi, lo) ==
  IF hi.e - lo.e > 5 THEN hi
  ELSE Norm(hi.m * Pow10(hi.e - lo.e) + lo.m, lo.e)

\* x + y
FAdd(x, y) ==
  IF IsNaN(x) \/ IsNaN(y) THEN NaN
  ELSE IF IsInf(x) THEN (IF IsInf(y) /\ x # y THEN NaN ELSE x)
  ELSE IF IsInf(y) THEN y
  ELSE IF x.m = 0 THEN y
  ELSE IF y.m = 0 THEN x
  ELSE AddAligned(IF x.e >= y.e THEN x ELSE y, IF x.e >= y.e THEN y ELSE x)

FSub(x, y) == FAdd(x, FNeg(y))

\* x * y
FMul(x, y) ==
  IF IsNaN(x) \/ IsNaN(y) THEN NaN
  ELSE IF IsInf(x) \/ IsInf(y)
       THEN (IF x.m = 0 \/ y.m = 0 THEN NaN
             ELSE IF FSgn(x) * FSgn(y) > 0 THEN PInf ELSE NInf)
  ELSE Norm(x.m * y.m, x.e + y.e)

\* x / y
FDiv(x, y) ==
  IF IsNaN(x) \/ IsNaN(y) THEN NaN
  ELSE IF IsInf(x)
       THEN (IF IsInf(y) THEN NaN
             ELSE IF FSgn(x) * (IF y.m < 0 THEN -1 ELSE 1) > 0 THEN PInf ELSE NInf)
  ELSE IF IsInf(y) THEN Zero
  ELSE IF y.m = 0
       THEN (IF x.m = 0 THEN NaN ELSE IF x.m > 0 THEN PInf ELSE NInf)
  ELSE Norm(FSgn(x) * FSgn(y) * ((IAbs(x.m) * 100000) \div IAbs(y.m)),
            x.e - y.e - 5)

\* x < y (false when either is NaN, as in IEEE)
FLt(x, y) ==
  IF IsNaN(x) \/ IsNaN(y) THEN FALSE
  ELSE IF x = y THEN FALSE
  ELSE IF x = NInf \/ y = PInf THEN TRUE
  ELSE IF x = PInf \/ y = NInf THEN FALSE
  ELSE IF FSgn(x) # FSgn(y) THEN FSgn(x) < FSgn(y)
  ELSE IF FSgn(x) > 0
       THEN (x.e < y.e \/ (x.e = y.e /\ x.m < y.m))
  ELSE (x.e > y.e \/ (x.e = y.e /\ x.m < y.m))

FGt(x, y) == FLt(y, x)
FLe(x, y) == ~IsNaN(x) /\ ~IsNaN(y) /\ ~FLt(y, x)
FGe(x, y) == FLe(y, x)

\* Math.max and Math.min: NaN if either argument is NaN
FMax(x, y) == IF IsNaN(x) \/ IsNaN(y) THEN NaN ELSE IF FLt(x, y) THEN y ELSE x
FMin(x, y) == IF IsNaN(x) \/ IsNaN(y) THEN NaN ELSE IF FLt(y, x) THEN y ELSE x

\* the integer nearest to a finite x of small magnitude
FRound(x) ==
  IF x.m = 0 THEN 0
  ELSE IF x.e >= 0 THEN x.m * Pow10(x.e)
  ELSE IF x.e < -5 THEN 0
  ELSE ISgn(x.m) * ((IAbs(x.m) + Pow10(-x.e) \div 2) \div Pow10(-x.e))

Ln2  == Dec(6931, 4)
Ln10 == Dec(2303, 3)
Two  == FromInt(2)

\* c[k] + x (c[k+1] + x (c[k+2] + ...))
RECURSIVE Horner(_, _, _)
Horner(c, x, k) ==
  IF k = Len(c) THEN c[k] ELSE FAdd(c[k], FMul(x, Horner(c, x, k + 1)))

\* 1, 1/3, 1/5, 1/7, 1/9
AtanhCoef == <<One, Dec(3333, 4), Dec(2, 1), Dec(1429, 4), Dec(1111, 4)>>

\* 2 * atanh(w) = 2 (w + w^3/3 + w^5/5 + w^7/7 + w^9/9), for |w| <= 1/3
Atanh2(w) == FMul(Two, FMul(w, Horner(AtanhCoef, FMul(w, w), 1)))

\* ln(1 + d) for d in (-1/2, 9): halve 1 + d into [1, 2), then the atanh
\* series at w = d / (2 + d)
RECURSIVE LnUnit(_)
LnUnit(d) ==
  IF FGe(d, One) THEN FAdd(Ln2, LnUnit(FSub(FDiv(FAdd(One, d), Two), One)))
  ELSE Atanh2(FDiv(d, FAdd(Two, d)))

\* k ln(10) + ln(1 + d)
LnParts(k, d) == FAdd(FMul(FromInt(k), Ln10), LnUnit(d))

\* ln of a finite y > 0
LnPositive(y) == LnParts(y.e + 3, FSub([m |-> y.m, e |-> -3], One))

\* Math.log
FLn(x) ==
  IF IsNaN(x) \/ x.m < 0 THEN NaN
  ELSE IF x.m = 0 THEN NInf
  ELSE IF x = PInf THEN PInf
  ELSE LnPositive(x)

\* ln(1 + x) for x > -1, keeping the precision of a small x
FLn1p(x) ==
  IF IsNaN(x) THEN NaN
  ELSE IF x = PInf THEN PInf
  ELSE IF FLt(FAbs(x), Dec(5, 1)) THEN LnUnit(x)
  ELSE FLn(FAdd(One, x))

\* e^r for |r| <= 1.2 (Taylor series in Horner form)
RECURSIVE ExpSeries(_, _)
ExpSeries(r, k) ==
  IF k > 10 THEN One
  ELSE FAdd(One, FMul(FDiv(r, FromInt(k)), ExpSeries(r, k + 1)))

\* s * 10^k
Scale10(s, k) == Norm(s.m, s.e + k)

\* e^x = 10^k * e^(x - k ln(10)), k the integer nearest to x / ln(10)
ExpReduced(x, k) == Scale10(ExpSeries(FSub(x, FMul(FromInt(k), Ln10)), 1), k)

\* Math.exp: overflows to Infinity above 709.78, underflows to 0 below -745.13
FExp(x) ==
  IF IsNaN(x) THEN NaN
  ELSE IF x = PInf THEN PInf
  ELSE IF x = NInf THEN Zero
  ELSE IF FGt(x, Dec(7098, 1)) THEN PInf
  ELSE IF FLt(x, Dec(-7451, 1)) THEN Zero
  ELSE ExpReduced(x, FRound(FDiv(x, Ln10)))

\* Math.pow(x, y) for x >= 0
FPow(x, y) ==
  IF IsNaN(x) \/ IsNaN(y) THEN (IF y = Zero THEN One ELSE NaN)
  ELSE IF y.m = 0 THEN One
  ELSE IF x.m < 0 THEN NaN
  ELSE IF x.m = 0 THEN (IF y.m > 0 THEN Zero ELSE PInf)
  ELSE FExp(FMul(y, FLn(x)))

\* Math.pow(1 + x, y) for 1 + x > 0
FPow1p(x, y) ==
  IF IsNaN(x) \/ IsNaN(y) THEN (IF y = Zero THEN One ELSE NaN)
  ELSE IF y.m = 0 THEN One
  ELSE FExp(FMul(y, FLn1p(x)))

(***************************************************************************)
(* decline.ts: models and fit statistics                                   *)
(***************************************************************************)

RECURSIVE FSum(_)
FSum(s) == IF s = <<>> THEN Zero ELSE FAdd(FSum(SubSeq(s, 1, Len(s) - 1)), s[Len(s)])

RECURSIVE ISum(_)
ISum(s) == IF s = <<>> THEN 0 ELSE ISum(SubSeq(s, 1, Len(s) - 1)) + s[Len(s)]

FSq(x) == FMul(x, x)

ExponentialModel(qi0, Di0) == [type |-> "exponential", qi |-> qi0, Di |-> Di0, b |-> Zero]
HyperbolicModel(qi0, Di0, b0) == [type |-> "hyperbolic", qi |-> qi0, Di |-> Di0, b |-> b0]

\* qi / (1 + b*Di*t)^(1/b), the hyperbolic rate as the fitting loop computes it
HypPred(qi0, Di0, b0, t) ==
  FDiv(qi0, FPow1p(FMul(FMul(b0, Di0), FromInt(t)), FDiv(One, b0)))

predictRate(model, t) ==
  IF model.type = "exponential"
  THEN FMul(model.qi, FExp(FMul(FNeg(model.Di), FromInt(t))))
  ELSE LET denom == FAdd(One, FMul(FMul(model.b, model.Di), FromInt(t)))
       IN IF FLe(denom, Zero) THEN Zero
          ELSE HypPred(model.qi, model.Di, model.b, t)

\* sum over the points of (rates[i] - predictRate(model, time[i]))^2
SumSqRes(ts, qs, model) ==
  FSum([i \in 1..Len(ts) |-> FSq(FSub(qs[i], predictRate(model, ts[i])))])

computeRSquared(ts, qs, model) ==
  LET mean  == FDiv(FSum(qs), FromInt(Len(qs)))
      ssRes == SumSqRes(ts, qs, model)
      ssTot == FSum([i \in 1..Len(ts) |-> FSq(FSub(qs[i], mean))])
  IN IF ssTot = Zero THEN One ELSE FSub(One, FDiv(ssRes, ssTot))

computeAIC(ts, qs, model, k) ==
  LET n   == Len(ts)
      sse == SumSqRes(ts, qs, model)
  IN FAdd(FMul(FromInt(n), FLn(FAdd(FDiv(sse, FromInt(n)), Dec(1, 15)))),
          FromInt(2 * k))

(***************************************************************************)
(* decline.ts: fitExponential                                              *)
(***************************************************************************)

ErrExp2   == "Need at least 2 positive data points for exponential fit"
ErrDegen  == "Degenerate data for exponential fit"
ErrHyp3   == "Need at least 3 positive data points for hyperbolic fit"
NoError   == ""

\* the indices of the points kept by the rates[i] > 0 filter, in order
ValidIdx(ts, qs) ==
  SelectSeq([i \in 1..Len(ts) |-> i], LAMBDA i : FGt(qs[i], Zero))

ValidT(ts, qs) ==
  LET ix == ValidIdx(ts, qs) IN [j \in 1..Len(ix) |-> ts[ix[j]]]
ValidQ(ts, qs) ==
  LET ix == ValidIdx(ts, qs) IN [j \in 1..Len(ix) |-> qs[ix[j]]]

NoModel == [type |-> "none", qi |-> Zero, Di |-> Zero, b |-> Zero]
NoFit   == [model |-> NoModel, rSquared |-> Zero, aic |-> Zero, eur |-> Zero]

Thrown(msg) == [error |-> msg, fit |-> NoFit]
Returned(res) == [error |-> NoError, fit |-> res]

\* RegressionDenom without the factor n
RegressionDenomNoN(t) ==
  ISum([i \in 1..Len(t) |-> t[i] * t[i]]) - ISum(t) * ISum(t)

\* n * sumT2 - sumT * sumT over the kept points (times are whole months)
RegressionDenom(t) ==
  Len(t) * ISum([i \in 1..Len(t) |-> t[i] * t[i]]) - ISum(t) * ISum(t)

\* ExpResult with eur = qi / Di whatever the sign of Di
ExpResultAnyDi(t, q, qi0, Di0) ==
  [model    |-> ExponentialModel(qi0, Di0),
   rSquared |-> computeRSquared(t, q, ExponentialModel(qi0, Di0)),
   aic      |-> computeAIC(t, q, ExponentialModel(qi0, Di0), 2),
   eur      |-> FDiv(qi0, Di0)]

\* the FitResult of the model qi0, Di0 over the kept points t, q
ExpResult(t, q, qi0, Di0) ==
  [model    |-> ExponentialModel(qi0, Di0),
   rSquared |-> computeRSquared(t, q, ExponentialModel(qi0, Di0)),
   aic      |-> computeAIC(t, q, ExponentialModel(qi0, Di0), 2),
   eur      |-> IF FGt(Di0, Zero) THEN FDiv(qi0, Di0) ELSE PInf]

\* (n * sumTLnq - sumT * sumLnq) / denom
Slope(n, sumT, sumLnq, sumTLnq, denom) ==
  FDiv(FSub(FMul(FromInt(n), sumTLnq), FMul(sumT, sumLnq)), denom)

\* (sumLnq - slope * sumT) / n
Intercept(n, sumT, sumLnq, slope) ==
  FDiv(FSub(sumLnq, FMul(slope, sumT)), FromInt(n))

\* qi = Math.exp(intercept), Di = -slope, and the result
ExpOfSlope(t, q, sumT, sumLnq, slope) ==
  Returned(ExpResult(t, q, FExp(Intercept(Len(t), sumT, sumLnq, slope)), FNeg(slope)))

\* the degenerate-data check and the regression, from the sums
ExpOfSums(t, q, sumT, sumLnq, sumTLnq, denom) ==
  IF FLt(FAbs(denom), Dec(1, 15)) THEN Thrown(ErrDegen)
  ELSE ExpOfSlope(t, q, sumT, sumLnq,
                  Slope(Len(t), sumT, sumLnq, sumTLnq, denom))

\* the n < 2 check and the sums, from the kept points and their logarithms
ExpOfLogs(t, q, lnq) ==
  IF Len(t) < 2 THEN Thrown(ErrExp2)
  ELSE ExpOfSums(t, q, FromInt(ISum(t)), FSum(lnq),
                 FSum([i \in 1..Len(t) |-> FMul(FromInt(t[i]), lnq[i])]),
                 FromInt(RegressionDenom(t)))

\* fitExponential on the kept points
ExpOfValid(t, q) == ExpOfLogs(t, q, [i \in 1..Len(q) |-> FLn(q[i])])

fitExponential(ts, qs) == ExpOfValid(ValidT(ts, qs), ValidQ(ts, qs))

(***************************************************************************)
(* decline.ts: fitHyperbolic                                               *)
(***************************************************************************)

maxIter == 200

\* the parameters the loop starts from: the exponential fit's qi,
\* Math.max(expFit.model.Di, 0.001) and b = 0.5
Seed(seedFit) ==
  [qi |-> seedFit.model.qi, Di |-> FMax(seedFit.model.Di, Dec(1, 3)), b |-> Dec(5, 1)]

\* Clamp that leaves b as the step gives it
ClampNoB(c) ==
  [qi |-> FMax(c.qi, One),
   Di |-> FMax(c.Di, Dec(1, 6)),
   b  |-> c.b]

\* clampedQi, clampedDi, clampedB
Clamp(c) ==
  [qi |-> FMax(c.qi, One),
   Di |-> FMax(c.Di, Dec(1, 6)),
   b  |-> FMax(Dec(1, 2), FMin(Dec(99, 2), c.b))]

\* the sum of squared residuals of the parameters p over the kept points
SSE(t, q, p) ==
  FSum([i \in 1..Len(t) |-> FSq(FSub(q[i], HypPred(p.qi, p.Di, p.b, t[i])))])

\* |oldSSE - newSSE| / (oldSSE + 1e-15) < 1e-10
Converged(oldSSE, newSSE) ==
  FLt(FDiv(FAbs(FSub(oldSSE, newSSE)), FAdd(oldSSE, Dec(1, 15))), Dec(1, 10))

\* the closed-form EUR with economic limit qf = 1
HypEur(qi0, Di0, b0) ==
  LET qf == One
  IN IF FLt(b0, One) /\ FGt(Di0, Zero)
     THEN FMul(FDiv(FPow(qi0, b0), FMul(FSub(One, b0), Di0)),
               FSub(FPow(qi0, FSub(One, b0)), FPow(qf, FSub(One, b0))))
     ELSE PInf

\* the FitResult built after the loop from the current parameters
HypResult(t, q, p) ==
  [model    |-> HyperbolicModel(p.qi, p.Di, p.b),
   rSquared |-> computeRSquared(t, q, HyperbolicModel(p.qi, p.Di, p.b)),
   aic      |-> computeAIC(t, q, HyperbolicModel(p.qi, p.Di, p.b), 3),
   eur      |-> HypEur(p.qi, p.Di, p.b)]

(***************************************************************************)
(* decline.ts: selectBestFit                                               *)
(***************************************************************************)

\* BestOf without the 0.005 margin
BestOfNoMargin(eFit, hypFit) ==
  IF FGt(hypFit.rSquared, eFit.rSquared) THEN hypFit ELSE eFit

\* hypFit.rSquared > expFit.rSquared + 0.005 ? hypFit : expFit
BestOf(eFit, hypFit) ==
  IF FGt(hypFit.rSquared, FAdd(eFit.rSquared, Dec(5, 3))) THEN hypFit ELSE eFit

(***************************************************************************)
(* parser.ts: strings are sequences of one-character strings               *)
(***************************************************************************)

ErrNoRecords == "No valid production records found"

Digits == {"0", "1", "2", "3", "4", "5", "6", "7", "8", "9"}

DigitVal(c) ==
  CASE c = "0" -> 0 [] c = "1" -> 1 [] c = "2" -> 2 [] c = "3" -> 3
    [] c = "4" -> 4 [] c = "5" -> 5 [] c = "6" -> 6 [] c = "7" -> 7
    [] c = "8" -> 8 [] c = "9" -> 9

\* the white space String.prototype.trim removes
IsSpace(c) == c \in {" ", "\t", "\r", "\n"}

RECURSIVE TrimStart(_)
TrimStart(str) ==
  IF str # <<>> /\ IsSpace(Head(str)) THEN TrimStart(Tail(str)) ELSE str

RECURSIVE TrimEnd(_)
TrimEnd(str) ==
  IF str # <<>> /\ IsSpace(str[Len(str)])
  THEN TrimEnd(SubSeq(str, 1, Len(str) - 1))
  ELSE str

\* String.prototype.trim
Trim(str) == TrimEnd(TrimStart(str))

\* cur without one final carriage return
StripCR(cur) ==
  IF cur # <<>> /\ cur[Len(cur)] = "\r" THEN SubSeq(cur, 1, Len(cur) - 1) ELSE cur

\* split(/\r?\n/): cur is the line being read
RECURSIVE SplitLines(_, _)
SplitLines(str, cur) ==
  IF str = <<>> THEN <<cur>>
  ELSE IF Head(str) = "\n" THEN <<StripCR(cur)>> \o SplitLines(Tail(str), <<>>)
  ELSE SplitLines(Tail(str), Append(cur, Head(str)))

\* str without its leading characters of seps
RECURSIVE DropRun(_, _)
DropRun(str, seps) ==
  IF str # <<>> /\ Head(str) \in seps THEN DropRun(Tail(str), seps) ELSE str

\* split(/[,\t]+/) for seps = {",", "\t"}: the fields between the maximal
\* runs of separators; cur is the field being read
RECURSIVE SplitRuns(_, _, _)
SplitRuns(str, seps, cur) ==
  IF str = <<>> THEN <<cur>>
  ELSE IF Head(str) \in seps
       THEN <<cur>> \o SplitRuns(DropRun(str, seps), seps, <<>>)
  ELSE SplitRuns(Tail(str), seps, Append(cur, Head(str)))

\* the fields of str between the occurrences of the character sep
RECURSIVE SplitAt(_, _, _)
SplitAt(str, sep, cur) ==
  IF str = <<>> THEN <<cur>>
  ELSE IF Head(str) = sep THEN <<cur>> \o SplitAt(Tail(str), sep, <<>>)
  ELSE SplitAt(Tail(str), sep, Append(cur, Head(str)))

\* toLowerCase on the letters of the model's alphabet
Lower(c) ==
  CASE c = "D" -> "d" [] c = "A" -> "a" [] c = "T" -> "t" [] c = "E" -> "e"
    [] c = "R" -> "r" [] OTHER -> c

StartsWithNoCase(str, word) ==
  /\ Len(str) >= Len(word)
  /\ \A i \in 1..Len(word) : Lower(str[i]) = word[i]

\* /^(date|month|time)/i
IsHeader(str) ==
  \/ StartsWithNoCase(str, <<"d", "a", "t", "e">>)
  \/ StartsWithNoCase(str, <<"m", "o", "n", "t", "h">>)
  \/ StartsWithNoCase(str, <<"t", "i", "m", "e">>)

\* \d{lo,hi}
AllDigits(f, lo, hi) ==
  /\ Len(f) >= lo /\ Len(f) <= hi
  /\ \A i \in 1..Len(f) : f[i] \in Digits

\* parseInt of a string of digits
RECURSIVE ParseDigits(_)
ParseDigits(f) ==
  IF f = <<>> THEN 0
  ELSE 10 * ParseDigits(SubSeq(f, 1, Len(f) - 1)) + DigitVal(f[Len(f)])

IsLeap(y) == (y % 4 = 0 /\ y % 100 # 0) \/ y % 400 = 0

\* the days of month mo (0 = January) of year y
DaysIn(y, mo) ==
  IF mo = 1 THEN (IF IsLeap(y) THEN 29 ELSE 28)
  ELSE IF mo \in {3, 5, 8, 10} THEN 30 ELSE 31

\* day d of month mo of year y, with d carried into the neighbouring months
RECURSIVE CarryDay(_, _, _)
CarryDay(y, mo, d) ==
  IF d < 1
  THEN (IF mo = 0 THEN CarryDay(y - 1, 11, d + 31)
        ELSE CarryDay(y, mo - 1, d + DaysIn(y, mo - 1)))
  ELSE IF d > DaysIn(y, mo)
  THEN (IF mo = 11 THEN CarryDay(y + 1, 0, d - 31)
        ELSE CarryDay(y, mo + 1, d - DaysIn(y, mo)))
  ELSE [year |-> y, month |-> mo, day |-> d]

\* month index mi of year y carried into the neighbouring years
CarryMonth(months, d) == CarryDay(months \div 12, months % 12, d)

\* new Date(y, mi, d): a year below 100 counts from 1900, and a month or a
\* day out of range is carried over
NewDate(y, mi, d) ==
  CarryMonth((IF y < 100 THEN 1900 + y ELSE y) * 12 + mi, d)

NoDate == [year |-> 0, month |-> 0, day |-> 0]

\* (\d{4})<sep>(\d{1,2})(?:<sep>(\d{1,2}))? on the fields f
YearFirst(f) ==
  /\ Len(f) \in {2, 3}
  /\ AllDigits(f[1], 4, 4) /\ AllDigits(f[2], 1, 2)
  /\ Len(f) = 3 => AllDigits(f[3], 1, 2)

\* (\d{1,2})\/(\d{1,2})\/(\d{4}) on the fields f
MonthFirst(f) ==
  /\ Len(f) = 3
  /\ AllDigits(f[1], 1, 2) /\ AllDigits(f[2], 1, 2) /\ AllDigits(f[3], 4, 4)

\* the Date of year-first fields: the day defaults to 1
DateYearFirst(f) ==
  NewDate(ParseDigits(f[1]), ParseDigits(f[2]) - 1,
          IF Len(f) = 3 THEN ParseDigits(f[3]) ELSE 1)

\* parseDate, from the fields between "-" and the fields between "/"
DateOfFields(dashed, slashed) ==
  IF YearFirst(dashed) THEN DateYearFirst(dashed)
  ELSE IF MonthFirst(slashed)
       THEN NewDate(ParseDigits(slashed[3]), ParseDigits(slashed[1]) - 1,
                    ParseDigits(slashed[2]))
  ELSE IF YearFirst(slashed) THEN DateYearFirst(slashed)
  ELSE NoDate

parseDate(str) == DateOfFields(SplitAt(str, "-", <<>>), SplitAt(str, "/", <<>>))

\* Date.prototype.getTime, up to a monotone scale
GetTime(date) == (date.year * 12 + date.month) * 32 + date.day

monthsDiff(d1, d2) == (d2.year - d1.year) * 12 + (d2.month - d1.month)

\* the longest prefix of digits
RECURSIVE TakeDigits(_)
TakeDigits(str) ==
  IF str # <<>> /\ Head(str) \in Digits
  THEN <<Head(str)>> \o TakeDigits(Tail(str))
  ELSE <<>>

\* str after its prefix pre
After(str, pre) == SubSeq(str, Len(pre) + 1, Len(str))

\* str after an optional sign
Unsigned(str) ==
  IF str # <<>> /\ Head(str) \in {"+", "-"} THEN Tail(str) ELSE str

HasPoint(rest) == rest # <<>> /\ Head(rest) = "."

\* the digits after the decimal point that rest starts with, if any
FracDigits(rest) == IF HasPoint(rest) THEN TakeDigits(Tail(rest)) ELSE <<>>

\* the value of the exponent part that rest starts with: "e" or "E", an
\* optional sign and at least one digit; 0 when there is none
ExpPart(rest) ==
  IF /\ rest # <<>> /\ Head(rest) \in {"e", "E"}
     /\ TakeDigits(Unsigned(Tail(rest))) # <<>>
  THEN (IF Head(Tail(rest)) = "-" THEN -1 ELSE 1)
         * ParseDigits(TakeDigits(Unsigned(Tail(rest))))
  ELSE 0

\* the number with integer digits ip, fraction digits fp and exponent exp10;
\* NaN without a digit
FloatOf(neg, ip, fp, exp10) ==
  IF ip = <<>> /\ fp = <<>> THEN NaN
  ELSE IF neg THEN FNeg(Norm(ParseDigits(ip \o fp), exp10 - Len(fp)))
  ELSE Norm(ParseDigits(ip \o fp), exp10 - Len(fp))

\* the number whose integer digits are ip, followed by rest
FloatParts(neg, ip, rest) ==
  FloatOf(neg, ip, FracDigits(rest),
          ExpPart(IF HasPoint(rest) THEN After(Tail(rest), FracDigits(rest))
                  ELSE rest))

FloatBody(neg, body) ==
  FloatParts(neg, TakeDigits(body), After(body, TakeDigits(body)))

\* parseFloat: the longest prefix that is a decimal literal (the literal
\* "Infinity" is not in the model's alphabet)
parseFloat(str) ==
  FloatBody(TrimStart(str) # <<>> /\ Head(TrimStart(str)) = "-",
            Unsigned(TrimStart(str)))

NoRecord == [date |-> NoDate, rate |-> NaN]

\* RecordOf without the test rate < 0
RecordOfAnyRate(date, rate) ==
  IF date = NoDate \/ IsNaN(rate) THEN NoRecord
  ELSE [date |-> date, rate |-> rate]

\* the record of a date and a rate, or NoRecord: !date || isNaN(rate) || rate < 0
RecordOf(date, rate) ==
  IF date = NoDate \/ IsNaN(rate) \/ FLt(rate, Zero) THEN NoRecord
  ELSE [date |-> date, rate |-> rate]

\* the record of the fields of a line: parts[0] the date, parts[1] the rate
RecordOfParts(parts) ==
  IF Len(parts) < 2 THEN NoRecord
  ELSE RecordOf(parseDate(Trim(parts[1])), parseFloat(Trim(parts[2])))

\* RecordOfTrimmed that also splits at spaces
RecordOfTrimmedSpaces(trimmed) ==
  IF trimmed = <<>> \/ IsHeader(trimmed) THEN NoRecord
  ELSE RecordOfParts(SplitRuns(trimmed, {",", "\t", " "}, <<>>))

\* the record of a trimmed line, or NoRecord for a line that is skipped
RecordOfTrimmed(trimmed) ==
  IF trimmed = <<>> \/ IsHeader(trimmed) THEN NoRecord
  ELSE RecordOfParts(SplitRuns(trimmed, {",", "\t"}, <<>>))

\* the body of the loop over the lines
RecordOfLine(ln) == RecordOfTrimmed(Trim(ln))

\* r put into the sorted records after every record that is not later
InsertByDate(sorted, r) ==
  LET before == SelectSeq(sorted, LAMBDA x : GetTime(x.date) <= GetTime(r.date))
      after  == SelectSeq(sorted, LAMBDA x : GetTime(x.date) > GetTime(r.date))
  IN before \o <<r>> \o after

\* SortByDate that leaves the records in the order of the lines
SortByDateKeep(rs) == rs

\* records.sort((a, b) => a.date.getTime() - b.date.getTime()): a stable sort
RECURSIVE SortByDate(_)
SortByDate(rs) ==
  IF rs = <<>> THEN <<>>
  ELSE InsertByDate(SortByDate(SubSeq(rs, 1, Len(rs) - 1)), rs[Len(rs)])

\* TimeOf measured from the previous record
TimeOfStepwise(sorted) ==
  [i \in 1..Len(sorted) |->
     IF i = 1 THEN 0 ELSE monthsDiff(sorted[i - 1].date, sorted[i].date)]

\* records.map((r) => monthsDiff(firstDate, r.date))
TimeOf(sorted) ==
  [i \in 1..Len(sorted) |-> monthsDiff(sorted[1].date, sorted[i].date)]

\* records.map((r) => r.rate)
RatesOf(sorted) == [i \in 1..Len(sorted) |-> sorted[i].rate]

\* the records of the lines ls, in the order of the lines
RECURSIVE RecordsOf(_)
RecordsOf(ls) ==
  IF ls = <<>> THEN <<>>
  ELSE IF RecordOfLine(Head(ls)) = NoRecord THEN RecordsOf(Tail(ls))
  ELSE <<RecordOfLine(Head(ls))>> \o RecordsOf(Tail(ls))

\* what parseProductionData returns when it has collected the records rs
ParsedOf(rs) ==
  IF rs = <<>> THEN [error |-> ErrNoRecords, time |-> <<>>, rates |-> <<>>]
  ELSE [error |-> NoError, time |-> TimeOf(SortByDate(rs)),
        rates |-> RatesOf(SortByDate(rs))]

\* parseProductionData(str)
parseProductionData(str) == ParsedOf(RecordsOf(SplitLines(Trim(str), <<>>)))

(***************************************************************************)
(* Inputs                                                                  *)
(***************************************************************************)

\* longest input series and largest gap, in months, between consecutive points
MaxLen == 3
MaxGap == 1

RateVals == {Zero, Dec(5, 1), FromInt(4)}

\* the month offsets of points separated by the gaps g: 0, g[1], g[1] + g[2], ...
TimesOf(g) == [i \in 1..(Len(g) + 1) |-> ISum(SubSeq(g, 1, i - 1))]

\* month offsets as the parser produces them: time[1] = 0, non-decreasing
TimeSeqs(n) ==
  IF n = 0 THEN {<<>>} ELSE {TimesOf(g) : g \in [1..(n - 1) -> 0..MaxGap]}

\* a steep three-month decline, convex on the logarithmic scale
SteepDecline == [time |-> <<0, 1, 2>>, rates |-> <<FromInt(8), FromInt(3), FromInt(1)>>]

Inputs ==
  UNION {{[time |-> ts, rates |-> rs] : ts \in TimeSeqs(n), rs \in [1..n -> RateVals]}
         : n \in 0..MaxLen}
  \cup {SteepDecline}

\* the values qi + delta[0], Di + delta[1], b + delta[2] of one iteration: the
\* solution delta of the damped normal equations is not computed but drawn, so
\* that the candidates fall below, inside and above the clamps, or are NaN
NewQiVals == {FromInt(-1), FromInt(3)}
NewDiVals == {FromInt(-1), Dec(7, 1)}
NewBVals  == {FromInt(-1), Dec(3, 1), FromInt(2)}

\* the step that takes the loop to the least-squares fit of SteepDecline
\* (qi = 8.009, Di = 1.008, b below the clamp)
SteepStep == [qi |-> Dec(8009, 3), Di |-> Dec(1008, 3), b |-> Dec(5, 3)]

Candidates ==
  {[qi |-> x, Di |-> y, b |-> z] : x \in NewQiVals, y \in NewDiVals, z \in NewBVals}
  \cup {[qi |-> NaN, Di |-> NaN, b |-> NaN], SteepStep}

\* the inputs fitHyperbolic runs its loop on, as kept points, and the parameter
\* values the loop can hold on each
LoopData ==
  {[t |-> ValidT(i.time, i.rates), q |-> ValidQ(i.time, i.rates)] :
     i \in {j \in Inputs : /\ Len(ValidIdx(j.time, j.rates)) >= 3
                           /\ RegressionDenom(ValidT(j.time, j.rates)) # 0}}

LoopParams(d) ==
  {Seed(fitExponential(d.t, d.q).fit)} \cup {Clamp(c) : c \in Candidates}

LoopKeys == UNION {{<<d, p>> : p \in LoopParams(d)} : d \in LoopData}

\* SSE and HypResult over the loop's data and parameters, evaluated once
SSETab == [k \in LoopKeys |-> SSE(k[1].t, k[1].q, k[2])] @@ <<>>
HypResultTab == [k \in LoopKeys |-> HypResult(k[1].t, k[1].q, k[2])] @@ <<>>

(***************************************************************************)
(* State                                                                   *)
(***************************************************************************)

VARIABLES
  time, rates,   \* the arguments of the call
  call,          \* the function called
  pc,            \* where the call stands
  valid,         \* fitHyperbolic's kept points {t, q}
  qi, Di, b,     \* fitHyperbolic's current parameters
  lambda,        \* the damping 0.01 * 0.5^halved * 5^fived
  iter,          \* the loop counter
  exit,          \* how the loop was left
  expFit,        \* selectBestFit's exponential result
  ret,           \* the FitResult a fit returned
  best, all,     \* selectBestFit's result
  err,           \* the message of the error thrown, if any
  input,         \* parseProductionData's argument
  given,         \* the lines input was put together from
  lines,         \* the lines still to be read
  records,       \* parseProductionData's records
  fc,            \* generateForecast's arguments
  fcM,           \* generateForecast's loop counter m
  cumulative,    \* generateForecast's running sum
  points,        \* generateForecast's points
  eurAtEnd,      \* generateForecast's eurAtEnd
  fit,           \* exportResultsCsv's argument
  csv,           \* the string exportResultsCsv returns
  rawData, parsed, fits, bestFit, forecast, forecastPeriod, error,
                 \* the state of the web app's App component
  history        \* the engine calls made so far, with their results

parseVars == <<input, given, lines, records>>
fcVars    == <<fc, fcM, cumulative, points, eurAtEnd>>
exportVars == <<fit, csv>>
appVars   == <<rawData, parsed, fits, bestFit, forecast, forecastPeriod, error>>
restVars  == <<exportVars, appVars, history>>

vars == <<time, rates, call, pc, valid, qi, Di, b, lambda, iter, exit,
          expFit, ret, best, all, err, parseVars, fcVars, restVars>>

NoValid  == [t |-> <<>>, q |-> <<>>]
Lambda0  == [halved |-> 0, fived |-> 0]
Calls    == {"fitExponential", "fitHyperbolic", "selectBestFit"}

Locals0 ==
  /\ valid = NoValid /\ qi = Zero /\ Di = Zero /\ b = Zero
  /\ lambda = Lambda0 /\ iter = 0

NoForecastArgs ==
  [model |-> NoModel, months |-> 0, economicLimit |-> Zero, startMonth |-> 0]

\* parseProductionData is not running
ParseIdle == input = <<>> /\ given = <<>> /\ lines = <<>> /\ records = <<>>

\* generateForecast is not running
ForecastIdle ==
  /\ fc = NoForecastArgs /\ fcM = 0 /\ cumulative = Zero
  /\ points = <<>> /\ eurAtEnd = Zero

\* no fit is running and none has returned
FitIdle ==
  /\ Locals0
  /\ exit = "none"
  /\ expFit = NoFit /\ ret = NoFit /\ best = NoFit /\ all = <<>>

\* parsed = null and forecast = null
NoParsed   == [time |-> <<>>, rates |-> <<>>]
NoForecast == [points |-> <<>>, eurAtEnd |-> Zero]

\* exportResultsCsv is not running, the App component is not mounted and no
\* engine call is on record
RestIdle ==
  /\ fit = NoFit /\ csv = <<>>
  /\ rawData = <<>> /\ parsed = NoParsed /\ fits = <<>> /\ bestFit = NoFit
  /\ forecast = NoForecast /\ forecastPeriod = 24 /\ error = NoError
  /\ history = <<>>

Init ==
  /\ \E i \in Inputs : time = i.time /\ rates = i.rates
  /\ call \in Calls
  /\ pc = "called"
  /\ Locals0
  /\ exit = "none"
  /\ expFit = NoFit /\ ret = NoFit /\ best = NoFit /\ all = <<>>
  /\ err = NoError
  /\ ParseIdle /\ ForecastIdle /\ RestIdle

\* the locals of fitHyperbolic go out of scope
DropLocals ==
  /\ valid' = NoValid /\ qi' = Zero /\ Di' = Zero /\ b' = Zero
  /\ lambda' = Lambda0 /\ iter' = 0

\* Throw with the fitter's message replaced by a generic one
ThrowWrapped(msg) ==
  /\ err' = "Fit failed" /\ pc' = "done"
  /\ UNCHANGED <<ret, best, all>>

\* throw new Error(msg): the call ends without a result
Throw(msg) ==
  /\ err' = msg /\ pc' = "done"
  /\ UNCHANGED <<ret, best, all>>

\* the call ends with the outcome r of fitExponential
ExpReturns(r) == err' = r.error /\ ret' = r.fit /\ pc' = "done"

\* fitExponential(time, rates), called directly
FitExponential ==
  /\ call = "fitExponential" /\ pc = "called"
  /\ ExpReturns(fitExponential(time, rates))
  /\ UNCHANGED <<time, rates, call, valid, qi, Di, b, lambda, iter, exit,
                 expFit, best, all>>
  /\ UNCHANGED <<parseVars, fcVars, restVars>>

\* selectBestFit goes on with the outcome r of fitExponential, or rethrows
SelectKeeps(r) ==
  IF r.error # NoError
  THEN Throw(r.error) /\ UNCHANGED expFit
  ELSE /\ expFit' = r.fit /\ pc' = "hyp"
       /\ UNCHANGED <<ret, best, all, err>>

\* selectBestFit: const expFit = fitExponential(time, rates)
SelectFitExponential ==
  /\ call = "selectBestFit" /\ pc = "called"
  /\ SelectKeeps(fitExponential(time, rates))
  /\ UNCHANGED <<time, rates, call, valid, qi, Di, b, lambda, iter, exit>>
  /\ UNCHANGED <<parseVars, fcVars, restVars>>

AtFitHyperbolic ==
  \/ call = "fitHyperbolic" /\ pc = "called"
  \/ call = "selectBestFit" /\ pc = "hyp"

\* fitHyperbolic throws msg before its loop
HypThrows(msg) == Throw(msg) /\ UNCHANGED <<valid, qi, Di, b, lambda, iter>>

\* the loop is entered on the kept points v with the parameters p
EnterLoop(v, p) ==
  /\ valid' = v
  /\ qi' = p.qi /\ Di' = p.Di /\ b' = p.b
  /\ lambda' = Lambda0
  /\ iter' = 0
  /\ pc' = "loop"
  /\ UNCHANGED <<ret, best, all, err>>

\* the seed fit's outcome r is rethrown, or seeds the loop
SeedLoop(v, r) ==
  IF r.error # NoError THEN HypThrows(r.error) ELSE EnterLoop(v, Seed(r.fit))

\* HypStart with the seed fit made before the n < 3 check
HypStartSeedFirst ==
  /\ AtFitHyperbolic
  /\ IF fitExponential(time, rates).error = NoError
        /\ Len(ValidIdx(time, rates)) < 3
     THEN HypThrows(ErrHyp3)
     ELSE SeedLoop([t |-> ValidT(time, rates), q |-> ValidQ(time, rates)],
                   fitExponential(time, rates))
  /\ UNCHANGED <<time, rates, call, exit, expFit>>
  /\ UNCHANGED <<parseVars, fcVars, restVars>>

\* fitHyperbolic up to the loop: the filter, the n < 3 check and the seed fit
HypStart ==
  /\ AtFitHyperbolic
  /\ IF Len(ValidIdx(time, rates)) < 3
     THEN HypThrows(ErrHyp3)
     ELSE SeedLoop([t |-> ValidT(time, rates), q |-> ValidQ(time, rates)],
                   fitExponential(time, rates))
  /\ UNCHANGED <<time, rates, call, exit, expFit>>
  /\ UNCHANGED <<parseVars, fcVars, restVars>>

Params == [qi |-> qi, Di |-> Di, b |-> b]

\* the code after the loop, and selectBestFit's after fitHyperbolic returns
Return(hypFit, how) ==
  /\ exit' = how
  /\ DropLocals
  /\ pc' = "done"
  /\ IF call = "selectBestFit"
     THEN /\ all' = <<expFit, hypFit>>
          /\ best' = BestOf(expFit, hypFit)
          /\ UNCHANGED ret
     ELSE /\ ret' = hypFit
          /\ UNCHANGED <<best, all>>
  /\ UNCHANGED <<time, rates, call, expFit, err>>

\* the loop is left with the parameters p
Finish(p, how) == Return(HypResultTab[<<valid, p>>], how)

\* the loop condition iter < maxIter fails
LoopCap ==
  /\ pc = "loop" /\ iter >= maxIter
  /\ Finish(Params, "cap")
  /\ UNCHANGED <<parseVars, fcVars, restVars>>

\* IterSingular that throws instead of leaving the loop
IterSingularThrows ==
  /\ pc = "loop" /\ iter < maxIter
  /\ Throw("Singular matrix")
  /\ DropLocals
  /\ UNCHANGED <<time, rates, call, exit, expFit>>
  /\ UNCHANGED <<parseVars, fcVars, restVars>>

\* IterSingular that applies the step before leaving the loop
IterSingularSteps ==
  /\ pc = "loop" /\ iter < maxIter
  /\ \E c \in Candidates : Finish(Clamp(c), "singular")
  /\ UNCHANGED <<parseVars, fcVars, restVars>>

\* solve3x3 returns null: break
IterSingular ==
  /\ pc = "loop" /\ iter < maxIter
  /\ Finish(Params, "singular")
  /\ UNCHANGED <<parseVars, fcVars, restVars>>

\* Improves with the comparison turned round
Worsens(oldSSE, newSSE, oldP, newP) == FLt(oldSSE, newSSE)

\* Improves that also takes a candidate whose sum is not a number
ImprovesUnlessWorse(oldSSE, newSSE, oldP, newP) ==
  ~FLt(oldSSE, newSSE) /\ newP # oldP

\* newSSE < oldSSE.  Two different parameter values whose sums agree to the
\* model's four digits may still be ordered either way as doubles.
Improves(oldSSE, newSSE, oldP, newP) ==
  \/ FLt(newSSE, oldSSE)
  \/ newSSE = oldSSE /\ newP # oldP /\ IsFinite(newSSE)

\* the accepted branch: lambda *= 0.5, then the convergence test
Accept(p, oldSSE, newSSE) ==
  /\ Improves(oldSSE, newSSE, Params, p)
  /\ IF Converged(oldSSE, newSSE)
     THEN Finish(p, "converged")
     ELSE /\ qi' = p.qi /\ Di' = p.Di /\ b' = p.b
          /\ lambda' = [lambda EXCEPT !.halved = @ + 1]
          /\ iter' = iter + 1
          /\ UNCHANGED <<time, rates, call, pc, valid, exit, expFit,
                         ret, best, all, err>>

\* the sums of squared residuals of the loop's parameters on the kept points
SSEOf(sse, p) == sse[<<valid, p>>]

\* some candidate is accepted, the sums read from sse
SomeAccepted(sse) ==
  \E c \in Candidates : Accept(Clamp(c), SSEOf(sse, Params), SSEOf(sse, Clamp(c)))

\* some candidate is rejected, the sums read from sse
SomeRejected(sse) ==
  ~ \A c \in Candidates : FLt(SSEOf(sse, Clamp(c)), SSEOf(sse, Params))

\* an iteration whose clamped candidate is accepted
IterAccept ==
  /\ pc = "loop" /\ iter < maxIter
  /\ SomeAccepted(SSETab)
  /\ UNCHANGED <<parseVars, fcVars, restVars>>

\* IterReject that does not count the iteration
IterRejectNoCount ==
  /\ pc = "loop" /\ iter < maxIter
  /\ SomeRejected(SSETab)
  /\ lambda' = [lambda EXCEPT !.fived = @ + 1]
  /\ UNCHANGED <<time, rates, call, pc, valid, qi, Di, b, iter, exit, expFit,
                 ret, best, all, err>>
  /\ UNCHANGED <<parseVars, fcVars, restVars>>

\* an iteration whose clamped candidate is rejected
IterReject ==
  /\ pc = "loop" /\ iter < maxIter
  /\ SomeRejected(SSETab)
  /\ lambda' = [lambda EXCEPT !.fived = @ + 1]
  /\ iter' = iter + 1
  /\ UNCHANGED <<time, rates, call, pc, valid, qi, Di, b, exit, expFit,
                 ret, best, all, err>>
  /\ UNCHANGED <<parseVars, fcVars, restVars>>

Next ==
  \/ FitExponential
  \/ SelectFitExponential
  \/ HypStart
  \/ IterSingular
  \/ IterAccept
  \/ IterReject
  \/ LoopCap

Spec == Init /\ [][Next]_vars
(***************************************************************************)
(* fitExponential on series with a gap of years                            *)
(***************************************************************************)

\* month gaps between consecutive points, one of them nineteen years long
WideGaps  == {0, 1, 231}
WideRates == {Zero, Dec(25, 2), FromInt(8)}

WideTimeSeqs(n) ==
  IF n = 0 THEN {<<>>} ELSE {TimesOf(g) : g \in [1..(n - 1) -> WideGaps]}

WideInputs ==
  UNION {{[time |-> ts, rates |-> rs] : ts \in WideTimeSeqs(n), rs \in [1..n -> WideRates]}
         : n \in 0..MaxLen}

InitWide ==
  /\ \E i \in WideInputs : time = i.time /\ rates = i.rates
  /\ call = "fitExponential"
  /\ pc = "called"
  /\ Locals0
  /\ exit = "none"
  /\ expFit = NoFit /\ ret = NoFit /\ best = NoFit /\ all = <<>>
  /\ err = NoError
  /\ ParseIdle /\ ForecastIdle /\ RestIdle

SpecWide == InitWide /\ [][FitExponential]_vars

(***************************************************************************)
(* fitHyperbolic up to its loop on series with a rate that is Infinity     *)
(***************************************************************************)

\* rates as the parser returns them, one of them read from a text such as
\* 1e999, which parseFloat turns into Infinity
OverflowRates == {Dec(5, 1), FromInt(4), PInf}

OverflowInputs ==
  UNION {{[time |-> ts, rates |-> rs] : ts \in TimeSeqs(n), rs \in [1..n -> OverflowRates]}
         : n \in 0..MaxLen}

InitOverflow ==
  /\ \E i \in OverflowInputs : time = i.time /\ rates = i.rates
  /\ call = "fitHyperbolic"
  /\ pc = "called"
  /\ FitIdle
  /\ err = NoError
  /\ ParseIdle /\ ForecastIdle /\ RestIdle

SpecOverflow == InitOverflow /\ [][HypStart]_vars

(***************************************************************************)
(* parseProductionData on texts of a few lines                             *)
(***************************************************************************)

\* most lines of an input text
MaxLines == 3

Line(text, kind, date, rate) ==
  [text |-> text, kind |-> kind, date |-> date, rate |-> rate]

Dropped(text, kind) == Line(text, kind, NoDate, NaN)

Day(y, mo, d) == [year |-> y, month |-> mo, day |-> d]

\* the lines the input texts are put together from, each with what it is: a
\* record with its date (month 0 = January) and rate, or the reason it is not
LineSet ==
  { \* 2020-01,100
    Line(<<"2", "0", "2", "0", "-", "0", "1", ",", "1", "0", "0">>,
         "record", Day(2020, 0, 1), FromInt(100)),
    \* 2020-1<tab>50.5: the same date again
    Line(<<"2", "0", "2", "0", "-", "1", "\t", "5", "0", ".", "5">>,
         "record", Day(2020, 0, 1), Dec(505, 1)),
    \* <space>12/15/2019,<space>7<space>
    Line(<<" ", "1", "2", "/", "1", "5", "/", "2", "0", "1", "9", ",", " ", "7", " ">>,
         "record", Day(2019, 11, 15), FromInt(7)),
    \* 2020/03,,0
    Line(<<"2", "0", "2", "0", "/", "0", "3", ",", ",", "0">>,
         "record", Day(2020, 2, 1), Zero),
    \* 2020-02-30,1e2: the thirtieth day of February 2020 is March 1st
    Line(<<"2", "0", "2", "0", "-", "0", "2", "-", "3", "0", ",", "1", "e", "2">>,
         "record", Day(2020, 2, 1), FromInt(100)),
    \* 2019-12 40: the fields separated by a space
    Line(<<"2", "0", "1", "9", "-", "1", "2", " ", "4", "0">>,
         "spaced", Day(2019, 11, 1), FromInt(40)),
    \* Date,Rate
    Dropped(<<"D", "a", "t", "e", ",", "R", "a", "t", "e">>, "header"),
    \* 2019-11,-5
    Dropped(<<"2", "0", "1", "9", "-", "1", "1", ",", "-", "5">>, "negative"),
    \* 2020-01,abc
    Dropped(<<"2", "0", "2", "0", "-", "0", "1", ",", "a", "b", "c">>, "badRate"),
    \* 20-01,5
    Dropped(<<"2", "0", "-", "0", "1", ",", "5">>, "badDate"),
    \* 2019-10
    Dropped(<<"2", "0", "1", "9", "-", "1", "0">>, "oneField"),
    \* an empty line
    Dropped(<<>>, "blank") }

LineEnds == {<<"\n">>, <<"\r", "\n">>}

\* the texts of the lines ls, each but the last followed by eol
RECURSIVE Join(_, _)
Join(ls, eol) ==
  IF ls = <<>> THEN <<>>
  ELSE IF Len(ls) = 1 THEN ls[1].text
  ELSE ls[1].text \o eol \o Join(Tail(ls), eol)

GivenLines == UNION {[1..n -> LineSet] : n \in 0..MaxLines}

InitParse ==
  /\ given \in GivenLines
  /\ \E eol \in LineEnds : input = Join(given, eol)
  /\ lines = <<>> /\ records = <<>>
  /\ call = "parseProductionData"
  /\ pc = "called"
  /\ time = <<>> /\ rates = <<>>
  /\ FitIdle /\ ForecastIdle /\ RestIdle
  /\ err = NoError

fitVars == <<valid, qi, Di, b, lambda, iter, exit, expFit, ret, best, all>>

\* const lines = input.trim().split(/\r?\n/); const records = []
ParseSplit ==
  /\ call = "parseProductionData" /\ pc = "called"
  /\ lines' = SplitLines(Trim(input), <<>>)
  /\ records' = <<>>
  /\ pc' = "lines"
  /\ UNCHANGED <<input, given, time, rates, call, err, fitVars, fcVars, restVars>>

\* continue, or records.push({ date, rate })
Push(r) == records' = IF r = NoRecord THEN records ELSE Append(records, r)

\* one pass of the loop over the lines
ParseLine ==
  /\ call = "parseProductionData" /\ pc = "lines" /\ lines # <<>>
  /\ Push(RecordOfLine(Head(lines)))
  /\ lines' = Tail(lines)
  /\ UNCHANGED <<input, given, time, rates, call, pc, err, fitVars, fcVars, restVars>>

\* return { records, time, rates } for the sorted records
ParseReturns(sorted) ==
  /\ records' = sorted
  /\ time' = TimeOf(sorted)
  /\ rates' = RatesOf(sorted)
  /\ pc' = "done"
  /\ UNCHANGED <<err, ret, best, all>>

\* ParseEnd that returns the empty result instead of throwing
ParseEndNoThrow ==
  /\ call = "parseProductionData" /\ pc = "lines" /\ lines = <<>>
  /\ ParseReturns(SortByDate(records))
  /\ UNCHANGED <<input, given, lines, call, fcVars, restVars>>
  /\ UNCHANGED <<valid, qi, Di, b, lambda, iter, exit, expFit>>

\* after the loop: throw if there is no record, else sort and return
ParseEnd ==
  /\ call = "parseProductionData" /\ pc = "lines" /\ lines = <<>>
  /\ IF records = <<>>
     THEN Throw(ErrNoRecords) /\ UNCHANGED <<records, time, rates>>
     ELSE ParseReturns(SortByDate(records))
  /\ UNCHANGED <<input, given, lines, call, fcVars, restVars>>
  /\ UNCHANGED <<valid, qi, Di, b, lambda, iter, exit, expFit>>

NextParse ==
  \/ ParseSplit
  \/ ParseLine
  \/ ParseEnd

SpecParse == InitParse /\ [][NextParse]_vars

(***************************************************************************)
(* generateForecast (packages/engine/src/forecast.ts)                      *)
(***************************************************************************)

\* the longest forecast horizon explored
MaxMonths == 4

\* the models forecast: the two of the engine's tests, a rising and a steep
\* exponential fit, and the exponential fit of rates that rise so fast that
\* its qi underflows to 0
ForecastModels ==
  { ExponentialModel(FromInt(1000), Dec(5, 2)),
    HyperbolicModel(FromInt(1000), Dec(8, 2), Dec(5, 1)),
    ExponentialModel(One, Dec(-5, 1)),
    ExponentialModel(FromInt(1000), Dec(35, 1)),
    ExponentialModel(Zero, Dec(-3466, 3)) }

EconomicLimits == {Zero, One, FromInt(4), FromInt(100)}

StartMonths == {0, 44, 233}

ForecastArgs ==
  [model : ForecastModels, months : 0..MaxMonths,
   economicLimit : EconomicLimits, startMonth : StartMonths]

InitForecast ==
  /\ fc \in ForecastArgs
  /\ fcM = 0 /\ cumulative = Zero /\ points = <<>> /\ eurAtEnd = Zero
  /\ call = "generateForecast"
  /\ pc = "called"
  /\ time = <<>> /\ rates = <<>>
  /\ FitIdle /\ ParseIdle /\ RestIdle
  /\ err = NoError

\* const points = []; let cumulative = 0; let m = 0
ForecastEnter ==
  /\ call = "generateForecast" /\ pc = "called"
  /\ points' = <<>> /\ cumulative' = Zero /\ fcM' = 0
  /\ pc' = "loop"
  /\ UNCHANGED <<fc, eurAtEnd, time, rates, call, err, fitVars, parseVars, restVars>>

\* const rate = predictRate(model, startMonth + m)
RateAt(args, mm) == predictRate(args.model, args.startMonth + mm)

\* rate < economicLimit && m > 0, with <= for <
BreaksAtLimit(rate, limit, mm) == FLe(rate, limit) /\ mm > 0

\* rate < economicLimit && m > 0
Breaks(rate, limit, mm) == FLt(rate, limit) /\ mm > 0

\* cumulative += rate
AccumulateRate(cum, prevRate, rate) == FAdd(cum, rate)

\* cumulative += (prevRate + rate) / 2
Accumulate(cum, prevRate, rate) == FAdd(cum, FDiv(FAdd(prevRate, rate), Two))

\* the running sum after the pass for m with the given rate
CumulativeAfter(cum, args, mm, rate) ==
  IF mm > 0 THEN Accumulate(cum, RateAt(args, mm - 1), rate) ELSE cum

\* points.push({ month: t, rate, cumulative }); m++
Emit(rate, cum) ==
  /\ cumulative' = cum
  /\ points' = Append(points, [month |-> fc.startMonth + fcM, rate |-> rate,
                               cumulative |-> cum])
  /\ fcM' = fcM + 1

\* return { points, eurAtEnd: cumulative }
ForecastReturns ==
  /\ eurAtEnd' = cumulative
  /\ pc' = "done"
  /\ UNCHANGED <<fc, fcM, cumulative, points, time, rates, call, err,
                 fitVars, parseVars, restVars>>

\* a pass of the loop that pushes a point
PointFor(rate) ==
  /\ ~Breaks(rate, fc.economicLimit, fcM)
  /\ Emit(rate, CumulativeAfter(cumulative, fc, fcM, rate))

ForecastPoint ==
  /\ call = "generateForecast" /\ pc = "loop" /\ fcM <= fc.months
  /\ PointFor(RateAt(fc, fcM))
  /\ UNCHANGED <<fc, eurAtEnd, pc, time, rates, call, err, fitVars, parseVars, restVars>>

\* a pass of the loop that breaks
ForecastBreak ==
  /\ call = "generateForecast" /\ pc = "loop" /\ fcM <= fc.months
  /\ Breaks(RateAt(fc, fcM), fc.economicLimit, fcM)
  /\ ForecastReturns

\* the loop ends because m > months
ForecastEnd ==
  /\ call = "generateForecast" /\ pc = "loop" /\ fcM > fc.months
  /\ ForecastReturns

\* the running sum after the points pts
LastCumulative(pts) == IF pts = <<>> THEN Zero ELSE pts[Len(pts)].cumulative

\* pts after the pass for m = Len(pts) has pushed its point
PushPoint(args, pts, rate) ==
  Append(pts, [month |-> args.startMonth + Len(pts), rate |-> rate,
               cumulative |->
                 CumulativeAfter(LastCumulative(pts), args, Len(pts), rate)])

\* the loop from the pass for m = Len(pts) on, pts being the points pushed so
\* far (each pass pushes one), and the return
RECURSIVE ForecastLoop(_, _)
ForecastLoop(args, pts) ==
  IF \/ Len(pts) > args.months
     \/ Breaks(RateAt(args, Len(pts)), args.economicLimit, Len(pts))
  THEN [points |-> pts, eurAtEnd |-> LastCumulative(pts)]
  ELSE ForecastLoop(args, PushPoint(args, pts, RateAt(args, Len(pts))))

\* generateForecast(model, months, economicLimit, startMonth) as a function
generateForecast(args) == ForecastLoop(args, <<>>)

NextForecast ==
  \/ ForecastEnter
  \/ ForecastPoint
  \/ ForecastBreak
  \/ ForecastEnd

SpecForecast == InitForecast /\ [][NextForecast]_vars

(***************************************************************************)
(* exportResultsCsv (packages/engine/src/index.ts)                         *)
(***************************************************************************)

DigitChar(k) == <<"0", "1", "2", "3", "4", "5", "6", "7", "8", "9">>[k + 1]

\* the decimal digits of the integer n >= 0
RECURSIVE IntStr(_)
IntStr(n) ==
  IF n < 10 THEN <<DigitChar(n)>> ELSE Append(IntStr(n \div 10), DigitChar(n % 10))

Zeros(n) == IF n <= 0 THEN <<>> ELSE [i \in 1..n |-> "0"]

\* str without its final zeros
RECURSIVE StripZeros(_)
StripZeros(str) ==
  IF str # <<>> /\ str[Len(str)] = "0"
  THEN StripZeros(SubSeq(str, 1, Len(str) - 1)) ELSE str

\* Number::toString of a finite x >= 1e21: the digits d.ddd of the mantissa
\* without final zeros, then e+ and the decimal exponent
ExponentString(x) ==
  LET ds == StripZeros(IntStr(x.m))
  IN <<Head(ds)>> \o (IF Len(ds) > 1 THEN <<".">> \o Tail(ds) ELSE <<>>)
       \o <<"e", "+">> \o IntStr(x.e + 3)

\* the digits of the integer nearest to a * 10^k, the larger of two nearest,
\* for a mantissa a >= 0
ScaledDigits(a, k) ==
  IF k >= 0 THEN (IF a = 0 THEN <<"0">> ELSE IntStr(a) \o Zeros(k))
  ELSE IF k < -4 THEN <<"0">>
  ELSE IntStr((a + 5 * Pow10(-k - 1)) \div Pow10(-k))

\* the digits ds, padded with zeros to more than n digits, with a decimal
\* point before the last n
PointBefore(ds, n) ==
  LET padded == Zeros(n + 1 - Len(ds)) \o ds
  IN IF n = 0 THEN padded
     ELSE SubSeq(padded, 1, Len(padded) - n) \o <<".">>
            \o SubSeq(padded, Len(padded) - n + 1, Len(padded))

\* toFixed that never switches to the exponent notation
toFixedAlways(x, digits) ==
  IF IsNaN(x) THEN <<"N", "a", "N">>
  ELSE IF x = PInf THEN <<"I", "n", "f", "i", "n", "i", "t", "y">>
  ELSE IF x = NInf THEN <<"-", "I", "n", "f", "i", "n", "i", "t", "y">>
  ELSE (IF x.m < 0 THEN <<"-">> ELSE <<>>)
         \o PointBefore(ScaledDigits(IAbs(x.m), x.e + digits), digits)

\* Number.prototype.toFixed(digits)
toFixed(x, digits) ==
  IF IsNaN(x) THEN <<"N", "a", "N">>
  ELSE IF x = PInf THEN <<"I", "n", "f", "i", "n", "i", "t", "y">>
  ELSE IF x = NInf THEN <<"-", "I", "n", "f", "i", "n", "i", "t", "y">>
  ELSE IF x.m # 0 /\ x.e + 3 >= 21
       THEN (IF x.m < 0 THEN <<"-">> ELSE <<>>) \o ExponentString(FAbs(x))
  ELSE (IF x.m < 0 THEN <<"-">> ELSE <<>>)
         \o PointBefore(ScaledDigits(IAbs(x.m), x.e + digits), digits)

TypeString(type) ==
  IF type = "hyperbolic" THEN <<"h", "y", "p", "e", "r", "b", "o", "l", "i", "c">> ELSE <<"e", "x", "p", "o", "n", "e", "n", "t", "i", "a", "l">>

\* the b-factor line without the test of the model type
BFactorAlways(model) == toFixed(model.b, 4)

\* m.type === 'hyperbolic' ? m.b.toFixed(4) : '0'
BFactor(model) ==
  IF model.type = "hyperbolic" THEN toFixed(model.b, 4) ELSE <<"0">>

\* Number.isFinite(fit.eur) ? fit.eur.toFixed(2) : 'N/A'
EurString(eur) ==
  IF IsFinite(eur) THEN toFixed(eur, 2) ELSE <<"N", "/", "A">>

HeaderLine == <<"P", "a", "r", "a", "m", "e", "t", "e", "r", ",", "V", "a", "l", "u", "e">>

\* the lines pushed after the header, in the order of the statements
PushedLines(r) ==
  << <<"M", "o", "d", "e", "l", " ", "T", "y", "p", "e", ",">> \o TypeString(r.model.type),
     <<"q", "i", " ", "(", "i", "n", "i", "t", "i", "a", "l", " ", "r", "a", "t", "e", ")", ",">> \o toFixed(r.model.qi, 2),
     <<"D", "i", " ", "(", "d", "e", "c", "l", "i", "n", "e", " ", "r", "a", "t", "e", ")", ",">> \o toFixed(r.model.Di, 6),
     <<"b", "-", "f", "a", "c", "t", "o", "r", ",">> \o BFactor(r.model),
     <<"R", "²", ",">> \o toFixed(r.rSquared, 6),
     <<"A", "I", "C", ",">> \o toFixed(r.aic, 2),
     <<"E", "U", "R", ",">> \o EurString(r.eur) >>

\* lines.join(sep)
RECURSIVE JoinLines(_, _)
JoinLines(ls, sep) ==
  IF ls = <<>> THEN <<>>
  ELSE IF Len(ls) = 1 THEN ls[1]
  ELSE ls[1] \o <<sep>> \o JoinLines(Tail(ls), sep)

\* the FitResults of the engine's export tests
TestFits ==
  { [model |-> ExponentialModel(FromInt(1000), Dec(5, 2)),
     rSquared |-> Dec(995, 3), aic |-> Dec(-1205, 1), eur |-> FromInt(20000)],
    [model |-> HyperbolicModel(FromInt(1000), Dec(8, 2), Dec(5, 1)),
     rSquared |-> Dec(998, 3), aic |-> Dec(-1302, 1), eur |-> FromInt(25000)] }

\* a well shut in at month 0 whose rate falls steeply twenty months later
LateDecline == [time |-> <<0, 20, 21>>, rates |-> <<Zero, FromInt(8), Dec(25, 2)>>]

\* the results of fitExponential on the inputs i
ExpFitsOf(inputs) ==
  {fitExponential(i.time, i.rates).fit :
     i \in {j \in inputs : fitExponential(j.time, j.rates).error = NoError}}

\* the FitResults exported: those of the tests and those the fits return
\* (the loop accepts no candidate that is not a number)
ExportFits ==
  TestFits \cup ExpFitsOf(Inputs \cup WideInputs \cup {LateDecline})
    \cup {HypResultTab[k] : k \in {j \in LoopKeys : ~IsNaN(j[2].qi)}}

InitExport ==
  /\ fit \in ExportFits
  /\ csv = <<>>
  /\ call = "exportResultsCsv"
  /\ pc = "called"
  /\ time = <<>> /\ rates = <<>>
  /\ FitIdle /\ ParseIdle /\ ForecastIdle
  /\ rawData = <<>> /\ parsed = NoParsed /\ fits = <<>> /\ bestFit = NoFit
  /\ forecast = NoForecast /\ forecastPeriod = 24 /\ error = NoError
  /\ history = <<>>
  /\ err = NoError

\* const lines = ['Parameter,Value']
ExportStart ==
  /\ call = "exportResultsCsv" /\ pc = "called"
  /\ lines' = <<HeaderLine>>
  /\ pc' = "push"
  /\ UNCHANGED <<fit, csv, input, given, records, time, rates, call, err,
                 fitVars, fcVars, appVars, history>>

\* the next lines.push(..)
ExportPush ==
  /\ call = "exportResultsCsv" /\ pc = "push"
  /\ Len(lines) <= Len(PushedLines(fit))
  /\ lines' = Append(lines, PushedLines(fit)[Len(lines)])
  /\ UNCHANGED <<fit, csv, input, given, records, time, rates, call, pc, err,
                 fitVars, fcVars, appVars, history>>

\* return lines.join('\n')
ExportJoin ==
  /\ call = "exportResultsCsv" /\ pc = "push"
  /\ Len(lines) > Len(PushedLines(fit))
  /\ csv' = JoinLines(lines, "\n")
  /\ pc' = "done"
  /\ UNCHANGED <<fit, lines, input, given, records, time, rates, call, err,
                 fitVars, fcVars, appVars, history>>

NextExport ==
  \/ ExportStart
  \/ ExportPush
  \/ ExportJoin

SpecExport == InitExport /\ [][NextExport]_vars

(***************************************************************************)
(* The web app (packages/web/src/App.tsx, components/ResultsPanel.tsx)     *)
(***************************************************************************)

\* the texts typed, uploaded or selected, each with whether it holds a record
AppTexts ==
  {
    \* the empty text
    [text |-> <<>>,
     parses |-> FALSE],
    \* no date and no separator
    [text |-> <<"a", "s", "d", "f", " ", "1", "2", "3", "4", "5">>,
     parses |-> FALSE],
    \* a header alone
    [text |-> <<"D", "a", "t", "e", ",", "R", "a", "t", "e">>,
     parses |-> FALSE],
    \* one record
    [text |-> <<"D", "a", "t", "e", ",", "R", "a", "t", "e", "\n", "2", "0", "2", "0", "-", "0", "1", ",", "4">>,
     parses |-> TRUE],
    \* two records
    [text |-> <<"2", "0", "2", "0", "-", "0", "1", ",", "4", "\n", "2", "0", "2", "0", "-", "0", "2", ",", "4">>,
     parses |-> TRUE],
    \* a steep decline
    [text |-> <<"2", "0", "2", "0", "-", "0", "1", ",", "8", "\n", "2", "0", "2", "0", "-", "0", "2", ",", "3", "\n", "2", "0", "2", "0", "-", "0", "3", ",", "1">>,
     parses |-> TRUE],
    \* a constant rate
    [text |-> <<"2", "0", "2", "0", "-", "0", "1", ",", "4", "\n", "2", "0", "2", "0", "-", "0", "2", ",", "4", "\n", "2", "0", "2", "0", "-", "0", "3", ",", "4">>,
     parses |-> TRUE],
    \* a late drop
    [text |-> <<"2", "0", "2", "0", "-", "0", "1", ",", "4", "\n", "2", "0", "2", "0", "-", "0", "2", ",", "4", "\n", "2", "0", "2", "0", "-", "0", "3", ",", "0", ".", "5">>,
     parses |-> TRUE],
    \* an early drop
    [text |-> <<"2", "0", "2", "0", "-", "0", "1", ",", "4", "\n", "2", "0", "2", "0", "-", "0", "2", ",", "0", ".", "5", "\n", "2", "0", "2", "0", "-", "0", "3", ",", "0", ".", "5">>,
     parses |-> TRUE],
    \* a rising rate
    [text |-> <<"2", "0", "2", "0", "-", "0", "1", ",", "0", ".", "5", "\n", "2", "0", "2", "0", "-", "0", "2", ",", "4", "\n", "2", "0", "2", "0", "-", "0", "3", ",", "4">>,
     parses |-> TRUE],
    \* a dip
    [text |-> <<"2", "0", "2", "0", "-", "0", "1", ",", "4", "\n", "2", "0", "2", "0", "-", "0", "2", ",", "0", ".", "5", "\n", "2", "0", "2", "0", "-", "0", "3", ",", "4">>,
     parses |-> TRUE]
  }

RawTexts == {x.text : x \in AppTexts}

\* type ForecastPeriod
ForecastPeriods == {12, 24, 60}

\* the outcome of fitHyperbolic on the kept points v: the result for the seed
\* or for a clamped candidate whose SSE is not above the seed's
HypOutcomes(v, seed) ==
  {HypResultTab[<<v, p>>] :
     p \in {x \in LoopParams(v) :
              x = seed \/ FLe(SSETab[<<v, x>>], SSETab[<<v, seed>>])}}

\* what selectBestFit does once fitExponential has returned r
SelectAfterExp(ts, qs, r) ==
  IF r.error # NoError
  THEN {[error |-> r.error, best |-> NoFit, all |-> <<>>]}
  ELSE IF Len(ValidIdx(ts, qs)) < 3
  THEN {[error |-> ErrHyp3, best |-> NoFit, all |-> <<>>]}
  ELSE {[error |-> NoError, best |-> BestOf(r.fit, h), all |-> <<r.fit, h>>] :
          h \in HypOutcomes([t |-> ValidT(ts, qs), q |-> ValidQ(ts, qs)], Seed(r.fit))}

\* selectBestFit(time, rates): the error thrown or { best, all }
selectBestFit(ts, qs) == SelectAfterExp(ts, qs, fitExponential(ts, qs))

\* the state p of parsed after parseProductionData has returned r or thrown
ParsedFrom(r) ==
  IF r.error = NoError THEN [time |-> r.time, rates |-> r.rates] ELSE NoParsed

InitApp ==
  /\ rawData \in RawTexts
  /\ parsed = ParsedFrom(parseProductionData(rawData))
  /\ fits = <<>> /\ bestFit = NoFit /\ forecast = NoForecast
  /\ forecastPeriod = 24
  /\ error = NoError
  /\ call = "App" /\ pc = "mounted"
  /\ time = <<>> /\ rates = <<>>
  /\ FitIdle /\ ParseIdle /\ ForecastIdle
  /\ fit = NoFit /\ csv = <<>> /\ history = <<>>
  /\ err = NoError

engineVars == <<time, rates, call, pc, err, fitVars, parseVars, fcVars,
                exportVars, history>>

\* the auto-parse effect whose catch branch leaves parsed as it is
AutoParseKeepsParsed(r) ==
  /\ parsed' = IF r.error = NoError THEN ParsedFrom(r) ELSE parsed
  /\ error' = IF r.error = NoError THEN NoError ELSE error
  /\ fits' = <<>> /\ bestFit' = NoFit /\ forecast' = NoForecast

\* the auto-parse effect that resets the results only when the parse fails
AutoParseKeepsFits(r) ==
  /\ parsed' = ParsedFrom(r)
  /\ error' = IF r.error = NoError THEN NoError ELSE error
  /\ IF r.error = NoError
     THEN UNCHANGED <<fits, bestFit, forecast>>
     ELSE fits' = <<>> /\ bestFit' = NoFit /\ forecast' = NoForecast

\* the auto-parse effect, parseProductionData(rawData) having returned r or
\* thrown
AutoParse(r) ==
  /\ parsed' = ParsedFrom(r)
  /\ error' = IF r.error = NoError THEN NoError ELSE error
  /\ fits' = <<>> /\ bestFit' = NoFit /\ forecast' = NoForecast

\* setRawData(text), and the effect of the change
SetRawData(text) ==
  /\ text # rawData
  /\ rawData' = text
  /\ AutoParse(parseProductionData(text))
  /\ UNCHANGED <<forecastPeriod, engineVars>>

\* the textarea's onChange; an uploaded file and a selected sample set the
\* text through the same setter
Edit == \E text \in RawTexts : SetRawData(text)

\* generateForecast(best.model, period, 1, lastTime)
ForecastOf(mdl, period, ts) ==
  generateForecast([model |-> mdl, months |-> period, economicLimit |-> One,
                    startMonth |-> ts[Len(ts)]])

\* handleFit after selectBestFit has thrown or returned o
FitDone(o) ==
  IF o.error # NoError
  THEN error' = o.error /\ UNCHANGED <<fits, bestFit, forecast>>
  ELSE /\ fits' = o.all
       /\ bestFit' = o.best
       /\ forecast' = ForecastOf(o.best.model, forecastPeriod, parsed.time)
       /\ error' = NoError

\* a click on the Fit button
HandleFit ==
  /\ parsed # NoParsed
  /\ \E o \in selectBestFit(parsed.time, parsed.rates) : FitDone(o)
  /\ UNCHANGED <<rawData, parsed, forecastPeriod, engineVars>>

\* the choice of another forecast period
HandleForecastPeriodChange ==
  /\ \E period \in ForecastPeriods :
       /\ period # forecastPeriod
       /\ forecastPeriod' = period
       /\ forecast' = IF bestFit # NoFit /\ parsed # NoParsed
                      THEN ForecastOf(bestFit.model, period, parsed.time)
                      ELSE forecast
  /\ UNCHANGED <<rawData, parsed, fits, bestFit, error, engineVars>>

NextApp ==
  \/ Edit
  \/ HandleFit
  \/ HandleForecastPeriodChange

SpecApp == InitApp /\ [][NextApp]_vars

\* what the page shows
ErrorShown  == error # NoError
FitDisabled == parsed = NoParsed
Cards       == [i \in 1..Len(fits) |-> fits[i].model.type]
BadgeAlways(i) == bestFit # NoFit
Badge(i)    == bestFit # NoFit /\ fits[i].model.type = bestFit.model.type
PeriodChosen == forecastPeriod
PeriodShown == Len(forecast.points) - 1

(***************************************************************************)
(* A session of engine calls on the same arrays and model object           *)
(***************************************************************************)

MaxCalls == 3

\* the series a caller holds
SessionInputs ==
  {SteepDecline,
   [time |-> <<0, 1, 2>>, rates |-> <<FromInt(4), FromInt(4), FromInt(4)>>],
   [time |-> <<0, 1, 2>>, rates |-> <<FromInt(4), FromInt(4), Dec(5, 1)>>],
   [time |-> <<0, 1, 2>>, rates |-> <<FromInt(4), Zero, Dec(5, 1)>>],
   [time |-> <<0, 2>>, rates |-> <<FromInt(4), Dec(5, 1)>>],
   [time |-> <<0, 0>>, rates |-> <<FromInt(4), FromInt(4)>>],
   [time |-> <<>>, rates |-> <<>>]}

\* the candidate of least SSE on the kept points v, the sums read from sse
LeastSSE(sse, v) ==
  Clamp(CHOOSE c \in Candidates :
          /\ ~IsNaN(sse[<<v, Clamp(c)>>])
          /\ \A d \in Candidates :
               ~FLt(sse[<<v, Clamp(d)>>], sse[<<v, Clamp(c)>>]))

\* the clamped candidate of an iteration.  The code computes it from the
\* kept points, the parameters and lambda alone; the model fixes one such
\* function, the candidate of least SSE on the kept points, whatever the
\* parameters and lambda are.
StepOf(sse) == [v \in LoopData |-> LeastSSE(sse, v)] @@ <<>>

\* the loop of fitHyperbolic from iteration it on: the parameters it ends
\* with, the sums read from sse and the steps from step.  A rejected step
\* leaves the parameters as they are, so the same step is computed and
\* rejected in every later iteration, up to maxIter.
RECURSIVE LoopEnd(_, _, _, _, _)
LoopEnd(sse, step, v, p, it) ==
  IF it >= maxIter THEN p
  ELSE IF FLt(sse[<<v, step[v]>>], sse[<<v, p>>])
  THEN IF Converged(sse[<<v, p>>], sse[<<v, step[v]>>])
       THEN step[v]
       ELSE LoopEnd(sse, step, v, step[v], it + 1)
  ELSE p

\* the parameters fitHyperbolic's loop ends with on the kept points v, from
\* the seed p
LoopResult(sse, v, p) == LoopEnd(sse, StepOf(sse), v, p, 0)

\* fitHyperbolic on the kept points v after the seed fit's outcome r
HypAfterSeed(v, r) ==
  IF r.error # NoError
  THEN Thrown(r.error)
  ELSE Returned(HypResultTab[<<v, LoopResult(SSETab, v, Seed(r.fit))>>])

\* fitHyperbolic(time, rates): the error thrown or the FitResult
fitHyperbolic(ts, qs) ==
  IF Len(ValidIdx(ts, qs)) < 3
  THEN Thrown(ErrHyp3)
  ELSE HypAfterSeed([t |-> ValidT(ts, qs), q |-> ValidQ(ts, qs)],
                    fitExponential(ts, qs))

\* fitHyperbolic on the session's series, evaluated once
HypTab == [i \in SessionInputs |-> fitHyperbolic(i.time, i.rates)] @@ <<>>

\* what a call gave: the error thrown or the value returned
Outcome(e, f, bst, al, fcst) ==
  [error |-> e, fit |-> f, best |-> bst, all |-> al, forecast |-> fcst]

FitOutcome(r) == Outcome(r.error, r.fit, NoFit, <<>>, NoForecast)

\* selectBestFit from the outcomes e of fitExponential and h of fitHyperbolic
SelectOutcome(e, h) ==
  IF e.error # NoError THEN FitOutcome(e)
  ELSE IF h.error # NoError THEN FitOutcome(h)
  ELSE Outcome(NoError, NoFit, BestOf(e.fit, h.fit), <<e.fit, h.fit>>, NoForecast)

\* the model object and the arguments the caller forecasts with
SessionModel(r) ==
  IF r.error = NoError THEN r.fit.model ELSE ExponentialModel(FromInt(8), Dec(7, 1))

SessionArgs(i) ==
  [model |-> SessionModel(fitExponential(i.time, i.rates)),
   months |-> MaxMonths, economicLimit |-> One,
   startMonth |-> IF i.time = <<>> THEN 0 ELSE i.time[Len(i.time)]]

InitCalls ==
  /\ \E i \in SessionInputs :
       time = i.time /\ rates = i.rates /\ fc = SessionArgs(i)
  /\ history = <<>>
  /\ call = "session" /\ pc = "idle"
  /\ FitIdle /\ ParseIdle
  /\ fcM = 0 /\ cumulative = Zero /\ points = <<>> /\ eurAtEnd = Zero
  /\ err = NoError
  /\ fit = NoFit /\ csv = <<>>
  /\ rawData = <<>> /\ parsed = NoParsed /\ fits = <<>> /\ bestFit = NoFit
  /\ forecast = NoForecast /\ forecastPeriod = 24 /\ error = NoError

calleeVars == <<call, pc, err, fitVars, parseVars, fcM, cumulative, points,
                eurAtEnd, exportVars, appVars>>

\* the caller records the call and what it gave
Record(name, res) ==
  /\ Len(history) < MaxCalls
  /\ history' = Append(history, [call |-> name, time |-> time, rates |-> rates,
                                 args |-> fc, result |-> res])
  /\ UNCHANGED calleeVars

CallFitExponential ==
  /\ Record("fitExponential", FitOutcome(fitExponential(time, rates)))
  /\ UNCHANGED <<time, rates, fc>>

\* CallFitHyperbolic with the points filtered in place
CallFitHyperbolicInPlace ==
  /\ Record("fitHyperbolic", FitOutcome(HypTab[[time |-> time, rates |-> rates]]))
  /\ time' = ValidT(time, rates)
  /\ rates' = ValidQ(time, rates)
  /\ UNCHANGED fc

CallFitHyperbolic ==
  /\ Record("fitHyperbolic", FitOutcome(HypTab[[time |-> time, rates |-> rates]]))
  /\ UNCHANGED <<time, rates, fc>>

CallSelectBestFit ==
  /\ Record("selectBestFit",
            SelectOutcome(fitExponential(time, rates),
                          HypTab[[time |-> time, rates |-> rates]]))
  /\ UNCHANGED <<time, rates, fc>>

CallGenerateForecast ==
  /\ Record("generateForecast",
            Outcome(NoError, NoFit, NoFit, <<>>, generateForecast(fc)))
  /\ UNCHANGED <<time, rates, fc>>

NextCalls ==
  \/ CallFitExponential
  \/ CallFitHyperbolic
  \/ CallSelectBestFit
  \/ CallGenerateForecast

SpecCalls == InitCalls /\ [][NextCalls]_vars

(***************************************************************************)
(* Properties                                                              *)
(***************************************************************************)

\* the number of points with rate > 0
NPositive == Len(ValidIdx(time, rates))

\* the points with rate > 0 all have the same time value
SameTime ==
  \A i, j \in 1..Len(time) :
     (FGt(rates[i], Zero) /\ FGt(rates[j], Zero)) => time[i] = time[j]

SelectDone == call = "selectBestFit" /\ pc = "done"
HypDone    == call = "fitHyperbolic" /\ pc = "done"
ExpDone    == call = "fitExponential" /\ pc = "done"

Margin == Dec(5, 3)

C2_ErrorsPropagate ==
  SelectDone =>
     LET e == fitExponential(time, rates)
     IN /\ e.error # NoError => err = e.error
        /\ (e.error = NoError /\ NPositive < 3) => err = ErrHyp3
        /\ err # NoError => (best = NoFit /\ all = <<>>)
        /\ err = NoError => (e.error = NoError /\ NPositive >= 3)
        /\ (NPositive = 2 /\ ~SameTime) => (e.error = NoError /\ err = ErrHyp3)

\* selectBestFit has failed on two positive points at distinct times
C2_Witness ==
  /\ SelectDone /\ NPositive = 2 /\ ~SameTime
  /\ err = ErrHyp3 /\ best = NoFit

\* C3: the AIC breaks ties: when neither R2 exceeds the other by more than the
\* 0.005 margin, best is the result with the lower AIC.
C3_AICBreaksTies ==
  (SelectDone /\ err = NoError) =>
     LET e == all[1]
         h == all[2]
         tie == /\ FLe(h.rSquared, FAdd(e.rSquared, Margin))
                /\ FLe(e.rSquared, FAdd(h.rSquared, Margin))
     IN tie => best = (IF FLt(h.aic, e.aic) THEN h ELSE e)

\* C4: fitHyperbolic called with fewer than three positive points fails with
\* the "at least 3 positive data points" error, never with an error of the
\* exponential fit.
C4_CheckBeforeSeedFit ==
  (HypDone /\ NPositive < 3) => (err = ErrHyp3 /\ ret = NoFit)

\* fitHyperbolic has failed on an input the exponential fit rejects as well
C4_Witness ==
  /\ HypDone /\ NPositive < 3
  /\ fitExponential(time, rates).error \in {ErrExp2, ErrDegen}
  /\ err = ErrHyp3

\* C5 as stated: fitHyperbolic fails only for insufficient data and returns a
\* FitResult whenever at least three points have a positive rate.
C5_OnlyInsufficientData ==
  HypDone =>
     /\ err # NoError => err = ErrHyp3
     /\ NPositive >= 3 => err = NoError

\* C5, amended: fitHyperbolic fails with the insufficient-data error exactly
\* when fewer than three points have a positive rate, and with the exponential
\* fit's degenerate-data error exactly when at least three have and they all
\* share one time value; in every other case it returns a hyperbolic FitResult,
\* however the loop was left.
C5_HypFailures ==
  HypDone =>
     /\ err \in {NoError, ErrHyp3, ErrDegen}
     /\ err = ErrHyp3 <=> NPositive < 3
     /\ err = ErrDegen <=> (NPositive >= 3 /\ SameTime)
     /\ err = NoError => (ret.model.type = "hyperbolic" /\ exit # "none")
     /\ err # NoError => (ret = NoFit /\ exit = "none")

\* fitHyperbolic has failed with the degenerate-data error of its seed fit
C5_Witness ==
  /\ HypDone /\ NPositive >= 3 /\ SameTime
  /\ err = ErrDegen

\* C6: fitExponential fails with the insufficient-data error when fewer than
\* two points have a positive rate and with the degenerate-data error when at
\* least two have and all share one time value; otherwise it returns a
\* FitResult of type exponential with b = 0.
C6_ExpFailures ==
  ExpDone =>
     /\ NPositive < 2 => err = ErrExp2
     /\ (NPositive >= 2 /\ SameTime) => err = ErrDegen
     /\ (NPositive >= 2 /\ ~SameTime) =>
           (err = NoError /\ ret.model.type = "exponential" /\ ret.model.b = Zero)
     /\ err # NoError => ret = NoFit

\* fitExponential has fitted the two positive points of a three-point series
C6_Witness ==
  /\ ExpDone /\ Len(time) = 3 /\ NPositive = 2 /\ ~SameTime
  /\ err = NoError /\ ret.model.type = "exponential"

\* C7: the eur of a returned FitResult is Infinity or a number >= 0.
C7_EurNonNegative ==
  ((ExpDone \/ HypDone) /\ err = NoError) =>
     (ret.eur = PInf \/ (IsFinite(ret.eur) /\ FGe(ret.eur, Zero)))

\* C8 as stated: the b returned by fitHyperbolic is strictly inside (0.01, 0.99).
C8_BStrictlyInside ==
  (HypDone /\ err = NoError) =>
     (FLt(Dec(1, 2), ret.model.b) /\ FLt(ret.model.b, Dec(99, 2)))

\* C8, amended: the b returned by fitHyperbolic satisfies 0.01 <= b <= 0.99.
C8_BWithinClamp ==
  (HypDone /\ err = NoError) =>
     (FLe(Dec(1, 2), ret.model.b) /\ FLe(ret.model.b, Dec(99, 2)))

\* fitHyperbolic has returned a b on the clamp after accepting a step
C8_Witness ==
  /\ HypDone /\ err = NoError
  /\ ret.model.b \in {Dec(1, 2), Dec(99, 2)}

\* C9: every returned model has qi > 0.
C9_QiPositive ==
  ((ExpDone \/ HypDone) /\ err = NoError) => FGt(ret.model.qi, Zero)

\* C10: every step of the loop either counts one more iteration, below the
\* cap of 200, or leaves the loop for good: by the cap, by a singular solve or
\* by the convergence test on an accepted step; fitHyperbolic then returns the
\* model of the parameters current at the exit.
C10_LoopTerminates ==
  [][pc = "loop" =>
       \/ /\ pc' = "loop"
          /\ iter < maxIter /\ iter' = iter + 1
       \/ /\ pc' = "done" /\ err' = NoError
          /\ exit' \in {"cap", "singular", "converged"}
          /\ exit' = "cap" <=> iter = maxIter
          /\ LET result == IF call = "selectBestFit" THEN all'[2] ELSE ret'
             IN IF exit' = "converged"
                THEN \E c \in Candidates :
                        /\ Improves(SSEOf(SSETab, Params), SSEOf(SSETab, Clamp(c)),
                                    Params, Clamp(c))
                        /\ result.model =
                             HyperbolicModel(Clamp(c).qi, Clamp(c).Di, Clamp(c).b)
                ELSE result.model = HyperbolicModel(qi, Di, b)]_vars

\* fitHyperbolic has returned after the loop ran to the cap
C10_Witness ==
  /\ HypDone /\ err = NoError
  /\ exit = "cap" /\ ret.model.type = "hyperbolic"

\* C11: when the damped system of an iteration is singular, fitHyperbolic
\* leaves the loop at once with qi, Di, b as they are and returns the
\* FitResult of those parameters; no error is raised.
C11_SingularKeepsParams ==
  [][(pc = "loop" /\ exit' = "singular") =>
       /\ pc' = "done" /\ err' = NoError
       /\ LET result == IF call = "selectBestFit" THEN all'[2] ELSE ret'
          IN /\ result.model = HyperbolicModel(qi, Di, b)
             /\ result = HypResultTab[<<valid, Params>>]]_vars

\* fitHyperbolic has returned after a singular solve that followed an
\* accepted step: b is no longer the seed's 0.5
C11_Witness ==
  /\ HypDone /\ err = NoError
  /\ exit = "singular" /\ ret.model.b # Dec(5, 1)

\* C12: fitExponential returns eur = qi / Di when the fitted Di > 0 and
\* Infinity when Di <= 0; two or more positive points at different times
\* always yield a model, declining or not.
C12_ExpEur ==
  ExpDone =>
     /\ err = NoError =>
          /\ ret.model.type = "exponential"
          /\ FGt(ret.model.Di, Zero) => ret.eur = FDiv(ret.model.qi, ret.model.Di)
          /\ FLe(ret.model.Di, Zero) => ret.eur = PInf
          /\ FGt(ret.model.Di, Zero) \/ FLe(ret.model.Di, Zero)
     /\ (NPositive >= 2 /\ ~SameTime) => err = NoError

\* fitExponential has returned the model of a rising series, with eur Infinity
C12_Witness ==
  /\ ExpDone /\ err = NoError
  /\ FLt(ret.model.Di, Zero) /\ ret.eur = PInf

\* fitExponential has returned a declining model
C12_Declining ==
  /\ ExpDone /\ err = NoError
  /\ FGt(ret.model.Di, Zero) /\ IsFinite(ret.eur)

Range(f) == {f[i] : i \in DOMAIN f}

ParseDone == call = "parseProductionData" /\ pc = "done"

\* the lines of the input that are records
RecordLines == {i \in 1..Len(given) : given[i].kind = "record"}

\* the record a line stands for
Expected(l) == [date |-> l.date, rate |-> l.rate]

\* C13: parseProductionData throws, and returns nothing, exactly when no
\* line of the input yields a record (empty input, only a header, only lines
\* that are dropped); with at least one record it succeeds.
C13_ThrowsIffNoRecord ==
  ParseDone =>
     /\ err \in {NoError, ErrNoRecords}
     /\ err = ErrNoRecords <=> RecordLines = {}
     /\ err = ErrNoRecords => (records = <<>> /\ time = <<>> /\ rates = <<>>)
     /\ err = NoError => records # <<>>

\* the parse of a header followed by lines that are all dropped has thrown
C13_Witness ==
  /\ ParseDone /\ err = ErrNoRecords
  /\ Len(given) = 3 /\ given[1].kind = "header" /\ given[2].kind # "blank"

\* C14: after a successful parse records, time and rates have the same
\* length, the records are in ascending date order, time[0] = 0, time is
\* non-decreasing, time[i] is year * 12 + month of record i minus that of the
\* first record, and rates[i] is the rate of record i.
C14_TimeAndRates ==
  (ParseDone /\ err = NoError) =>
     /\ Len(time) = Len(records) /\ Len(rates) = Len(records)
     /\ time[1] = 0
     /\ \A i \in 1..Len(records) :
          /\ time[i] = (records[i].date.year * 12 + records[i].date.month)
                         - (records[1].date.year * 12 + records[1].date.month)
          /\ rates[i] = records[i].rate
     /\ \A i \in 1..(Len(records) - 1) :
          /\ GetTime(records[i].date) <= GetTime(records[i + 1].date)
          /\ time[i] <= time[i + 1]

\* three records given latest first have been parsed, across a new year
C14_Witness ==
  /\ ParseDone /\ err = NoError
  /\ Len(given) = 3 /\ Len(records) = 3
  /\ GetTime(given[1].date) > GetTime(given[2].date)
  /\ GetTime(given[2].date) > GetTime(given[3].date)
  /\ time[2] > 0 /\ time[3] > time[2]
  /\ records[1].date.year < records[3].date.year

\* the input with its lines in the order pi
Permuted(pi) == Join([i \in 1..Len(given) |-> given[pi[i]]], <<"\n">>)

\* no two records have the same date
DistinctDates ==
  \A i, j \in 1..Len(records) :
     i # j => GetTime(records[i].date) # GetTime(records[j].date)

\* C15 as stated: for every permutation of the lines of the input,
\* parseProductionData returns the same time and rates, also when several
\* records have the same date and different rates.
C15_OrderIndependent ==
  ParseDone =>
     \A pi \in Permutations(1..Len(given)) :
        /\ parseProductionData(Permuted(pi)).error = err
        /\ parseProductionData(Permuted(pi)).time = time
        /\ parseProductionData(Permuted(pi)).rates = rates

\* C15 amended: for every permutation of the lines of the input,
\* parseProductionData returns the same time, and the same rates when no two
\* records have the same date.
C15_OrderIndependentDates ==
  ParseDone =>
     \A pi \in Permutations(1..Len(given)) :
        /\ parseProductionData(Permuted(pi)).error = err
        /\ parseProductionData(Permuted(pi)).time = time
        /\ DistinctDates => parseProductionData(Permuted(pi)).rates = rates

\* three records of different dates, given out of order, have been parsed
C15_Witness ==
  /\ ParseDone /\ err = NoError
  /\ Len(records) = 3 /\ DistinctDates
  /\ GetTime(given[1].date) > GetTime(given[3].date)

\* C16 as stated: a line whose date and rate are separated by spaces yields
\* a record like a comma- or tab-separated line.
C16_SpacesSeparate ==
  ParseDone =>
     \A i \in 1..Len(given) :
        given[i].kind = "spaced" =>
           \E j \in 1..Len(records) : records[j] = Expected(given[i])

\* C16 amended: a line whose date and rate are separated by one run of
\* commas and tabs, spaces around the fields allowed, yields a record; a line
\* whose date and rate are separated only by spaces yields none.
C16_CommasAndTabsSeparate ==
  ParseDone =>
     \A i \in 1..Len(given) :
        /\ given[i].kind = "record" =>
              \E j \in 1..Len(records) : records[j] = Expected(given[i])
        /\ given[i].kind = "spaced" =>
              \A j \in 1..Len(records) : records[j] # Expected(given[i])

\* a comma-separated, a tab-separated and a space-separated line have been
\* parsed into two records
C16_Witness ==
  /\ ParseDone /\ err = NoError
  /\ Len(records) = 2
  /\ \E i \in 1..Len(given) : given[i].kind = "spaced"
  /\ \E i \in 1..Len(given) : given[i].kind = "record" /\ "\t" \in Range(given[i].text)

\* C17: a header, a line of fewer than two fields, a line with a date in no
\* accepted format, with an unparsable rate or with a rate < 0 is dropped
\* without failing the parse and without changing the records of the other
\* lines: the records are those of the valid lines, as many, each of rate >= 0.
C17_InvalidLinesDropped ==
  ParseDone =>
     /\ RecordLines # {} => err = NoError
     /\ Len(records) = Cardinality(RecordLines)
     /\ \A j \in 1..Len(records) : FGe(records[j].rate, Zero)
     /\ \A i \in RecordLines :
          Cardinality({j \in 1..Len(records) : records[j] = Expected(given[i])})
            = Cardinality({k \in RecordLines : Expected(given[k]) = Expected(given[i])})

\* a parse has returned one record from three lines, one of them a line with
\* a negative rate
C17_Witness ==
  /\ ParseDone /\ err = NoError
  /\ Len(given) = 3 /\ Len(records) = 1
  /\ \E i \in 1..3 : given[i].kind = "negative"
  /\ \E i \in 1..3 : given[i].kind \in {"badDate", "badRate", "oneField", "header"}

ForecastDone == call = "generateForecast" /\ pc = "done"

\* the m in 1..months whose rate is below the economic limit
Breaches(args) ==
  {k \in 1..args.months : FLt(RateAt(args, k), args.economicLimit)}

\* the number of months before the first breach, all of them if there is none
MonthsKept(args) ==
  IF Breaches(args) = {} THEN args.months + 1
  ELSE CHOOSE k \in Breaches(args) : \A j \in Breaches(args) : k <= j

\* the rates of the model at startMonth .. startMonth + months are numbers >= 0
NonNegativeRates(args) ==
  \A k \in 0..args.months : FGe(RateAt(args, k), Zero)

\* C18: the point for m = 0 is always emitted whatever its rate, every later
\* emitted point has rate >= economicLimit, the emitted months are the
\* consecutive integers from startMonth up to the month before the first
\* m > 0 whose rate is below economicLimit (startMonth + months if there is
\* none), and no point is emitted after that first breach.
C18_StoppingRule ==
  ForecastDone =>
     /\ Len(points) = MonthsKept(fc)
     /\ points[1].rate = RateAt(fc, 0)
     /\ \A i \in 1..Len(points) : points[i].month = fc.startMonth + i - 1
     /\ \A i \in 2..Len(points) : FGe(points[i].rate, fc.economicLimit)

\* the stopping rule for the models whose rates are numbers
C18_StoppingRuleOfNumbers ==
  (ForecastDone /\ \A k \in 0..fc.months : ~IsNaN(RateAt(fc, k)))
     => C18_StoppingRule

\* a forecast has stopped at a breach although a later rate reaches the limit
C18_Witness ==
  /\ ForecastDone
  /\ Len(points) = 1 /\ fc.months > 2
  /\ FLt(RateAt(fc, 0), fc.economicLimit)
  /\ \E k \in 1..fc.months : k > Len(points) /\ FGe(RateAt(fc, k), fc.economicLimit)

\* C19: in every ForecastResult the first point has cumulative 0, each later
\* point's cumulative is the previous point's cumulative plus the mean of the
\* previous point's rate and its own, cumulative never decreases along the
\* points of a model with non-negative rates, and eurAtEnd is the cumulative
\* of the last point.
C19_Cumulative ==
  ForecastDone =>
     /\ points[1].cumulative = Zero
     /\ \A i \in 2..Len(points) :
          points[i].cumulative =
            FAdd(points[i-1].cumulative,
                 FDiv(FAdd(points[i-1].rate, points[i].rate), Two))
     /\ NonNegativeRates(fc) =>
          \A i \in 2..Len(points) :
             FGe(points[i].cumulative, points[i-1].cumulative)
     /\ eurAtEnd = points[Len(points)].cumulative

\* a forecast of a model with non-negative, changing rates has returned at
\* least three points with a growing cumulative
C19_Witness ==
  /\ ForecastDone /\ NonNegativeRates(fc)
  /\ Len(points) >= 3
  /\ points[2].rate # points[3].rate
  /\ FGt(points[2].cumulative, Zero)
  /\ FGt(points[3].cumulative, points[2].cumulative)
  /\ eurAtEnd # Zero

\* C20: for a model with non-negative rates and an integer M >= 0,
\* generateForecast(model, M, 0, startMonth) returns exactly M + 1 points,
\* whichever the model type and the start month.
C20_AllMonthsAtLimitZero ==
  (ForecastDone /\ fc.economicLimit = Zero /\ NonNegativeRates(fc))
     => Len(points) = fc.months + 1

\* a forecast with economic limit 0 from a later start month has returned
\* all its points, the later ones of rate 0
C20_Witness ==
  /\ ForecastDone /\ fc.economicLimit = Zero /\ NonNegativeRates(fc)
  /\ fc.months >= 2 /\ fc.startMonth > 0
  /\ Len(points) = fc.months + 1
  /\ points[2].rate = Zero

ExportDone == call = "exportResultsCsv" /\ pc = "done"

\* the text of ln before its first comma, and the text after it
LabelOf(ln) == SplitAt(ln, ",", <<>>)[1]
ValueOf(ln) == SubSeq(ln, Len(LabelOf(ln)) + 2, Len(ln))

ExportLabels ==
  << <<"P", "a", "r", "a", "m", "e", "t", "e", "r">>, <<"M", "o", "d", "e", "l", " ", "T", "y", "p", "e">>, <<"q", "i", " ", "(", "i", "n", "i", "t", "i", "a", "l", " ", "r", "a", "t", "e", ")">>, <<"D", "i", " ", "(", "d", "e", "c", "l", "i", "n", "e", " ", "r", "a", "t", "e", ")">>, <<"b", "-", "f", "a", "c", "t", "o", "r">>, <<"R", "²">>, <<"A", "I", "C">>, <<"E", "U", "R">> >>

\* str is a number written with exactly n decimals: an optional sign, digits,
\* a point and n digits, and it is within half a unit of the last decimal of x
AtDecimals(str, x, n) ==
  LET body == IF str # <<>> /\ Head(str) = "-" THEN Tail(str) ELSE str
      ip   == TakeDigits(body)
  IN /\ ip # <<>>
     /\ Len(body) = Len(ip) + 1 + n
     /\ body[Len(ip) + 1] = "."
     /\ \A i \in (Len(ip) + 2)..Len(body) : body[i] \in Digits
     /\ Len(ip) + n <= 9 =>
          FLe(FAbs(FSub(parseFloat(str), x)), Norm(5, -(n + 1)))

\* the parts of str between the occurrences of the character sep
PartsOf(str, sep) ==
  LET pos   == {i \in 1..Len(str) : str[i] = sep}
      n     == Cardinality(pos)
      at(k) == IF k = 0 THEN 0
               ELSE IF k = n + 1 THEN Len(str) + 1
               ELSE CHOOSE i \in pos : Cardinality({j \in pos : j < i}) = k - 1
  IN [k \in 1..(n + 1) |-> SubSeq(str, at(k - 1) + 1, at(k) - 1)]

\* the lines of the string returned
CsvLines == PartsOf(csv, "\n")

\* C21: exportResultsCsv always emits exactly 8 lines in the fixed order
\* Parameter,Value / Model Type / qi (initial rate) / Di (decline rate) /
\* b-factor / R2 / AIC / EUR; the b-factor value is the literal 0 for an
\* exponential model and b at 4 decimals for a hyperbolic one; the EUR value
\* is the literal N/A exactly when eur is not finite, and eur at 2 decimals
\* otherwise.
C21_ExportLines ==
  ExportDone =>
     /\ Len(CsvLines) = 8
     /\ \A i \in 1..8 : LabelOf(CsvLines[i]) = ExportLabels[i]
     /\ IF fit.model.type = "hyperbolic"
        THEN AtDecimals(ValueOf(CsvLines[5]), fit.model.b, 4)
        ELSE ValueOf(CsvLines[5]) = <<"0">>
     /\ IF IsFinite(fit.eur)
        THEN AtDecimals(ValueOf(CsvLines[8]), fit.eur, 2)
        ELSE ValueOf(CsvLines[8]) = <<"N", "/", "A">>

\* the same for the results whose eur is not finite or below 10^21
C21_ExportLinesBelow1e21 ==
  (ExportDone /\ (IsFinite(fit.eur) => fit.eur.e + 3 < 21)) => C21_ExportLines

\* a hyperbolic result with a finite eur has been exported
C21_Witness ==
  /\ ExportDone
  /\ fit.model.type = "hyperbolic" /\ IsFinite(fit.eur) /\ fit.eur # Zero
  /\ Len(CsvLines) = 8

\* the sum of squared residuals of the parameters p on the kept points v
SSEAt(v, p) == SSETab[<<v, p>>]

\* the candidate's sum new is strictly below the current sum old (to the
\* model's four digits: not above it, and a number)
StrictlyLower(old, new, oldP, newP) ==
  FLt(new, old) \/ (new = old /\ IsFinite(new) /\ newP # oldP)

KeptPoints == [t |-> ValidT(time, rates), q |-> ValidQ(time, rates)]
SeedParams == Seed(fitExponential(time, rates).fit)

\* the parameters of the model fitHyperbolic has returned
ReturnedParams ==
  LET mdl == IF call = "selectBestFit" THEN all[2].model ELSE ret.model
  IN [qi |-> mdl.qi, Di |-> mdl.Di, b |-> mdl.b]

HypReturned == pc = "done" /\ exit # "none" /\ err = NoError

InBounds(p) ==
  /\ FGe(p.b, Dec(1, 2)) /\ FLe(p.b, Dec(99, 2))
  /\ FGe(p.Di, Dec(1, 6))

\* C24: at every point of fitHyperbolic's loop, and in the model returned, the
\* parameters satisfy 0.01 <= b <= 0.99 and Di >= 1e-6, so that the EUR is
\* computed by the closed form (b < 1 and Di > 0) and is never the sentinel of
\* the other branch.
C24_ParamsInBounds ==
  /\ pc = "loop" => InBounds(Params)
  /\ HypReturned =>
       /\ InBounds(ReturnedParams)
       /\ FLt(ReturnedParams.b, One) /\ FGt(ReturnedParams.Di, Zero)

\* the loop is entered on three kept points, one of them of rate Infinity
C24_Witness ==
  /\ pc = "loop" /\ Len(valid.q) = 3
  /\ \E i \in 1..3 : valid.q[i] = PInf


(***************************************************************************)
(* The web app's properties                                                *)
(***************************************************************************)

\* the current text is one that holds no record
Unparsable == \E x \in AppTexts : x.text = rawData /\ ~x.parses

\* C25: whenever the raw text fails to parse, no error message is displayed,
\* whatever edits and Fit clicks came before, a failed Fit included.
C25_NoErrorWhenUnparsable == Unparsable => ~ErrorShown

\* the forecast asked for when the period is p, in the current state
PeriodArgs(p) ==
  [model |-> bestFit.model, months |-> p, economicLimit |-> One,
   startMonth |-> parsed.time[Len(parsed.time)]]

\* the number of months after the first, up to a.months, before the first
\* one whose predicted rate is below the limit
MonthsAboveLimit(a) ==
  CHOOSE k \in 0..a.months :
    /\ k = a.months \/ FLt(RateAt(a, k + 1), a.economicLimit)
    /\ \A j \in 1..k : ~FLt(RateAt(a, j), a.economicLimit)

PeriodSelected == forecastPeriod' # forecastPeriod /\ bestFit # NoFit

\* C26 (as stated): after a successful fit, selecting period P regenerates the
\* forecast and the forecast card's Period then shows P months, for every
\* dataset and best model.
C26_PeriodShowsChoice ==
  [][PeriodSelected => PeriodShown' = forecastPeriod']_vars

\* C26 (amended): after a successful fit, selecting period P regenerates the
\* forecast for the current best model from the last observed month, and the
\* card's Period then shows the number of forecast months before the first
\* one whose predicted rate is below the economic limit 1: at most P, and P
\* when no month's rate is below 1.
C26_PeriodShown ==
  [][PeriodSelected =>
       /\ forecast' = generateForecast(PeriodArgs(forecastPeriod'))
       /\ forecast'.points[1].month = parsed.time[Len(parsed.time)]
       /\ PeriodShown' = MonthsAboveLimit(PeriodArgs(forecastPeriod'))
       /\ PeriodShown' <= forecastPeriod']_vars

C26_Witness ==
  /\ bestFit # NoFit /\ forecastPeriod = 60
  /\ PeriodShown = 60
  /\ PeriodShown = MonthsAboveLimit(PeriodArgs(60))

Badges == {i \in 1..Len(fits) : Badge(i)}

\* C28: after every successful fit the results panel shows one card per model
\* (exponential and hyperbolic) and exactly one of them carries the Best Fit
\* badge, the one whose model type is the type of selectBestFit's best.
C28_OneBestFitBadge ==
  fits # <<>> =>
    /\ Cards = <<"exponential", "hyperbolic">>
    /\ Cardinality(Badges) = 1
    /\ \A i \in 1..Len(fits) : i \in Badges <=> Cards[i] = bestFit.model.type
    /\ \E i \in Badges : fits[i] = bestFit

C28_Witness == fits # <<>> /\ Badges = {2}
C28_WitnessExp == fits # <<>> /\ Badges = {1}

\* the displayed fits and forecast are those of the currently parsed data
FromCurrentData ==
  /\ fits # <<>> =>
       \E o \in selectBestFit(parsed.time, parsed.rates) :
         o.error = NoError /\ o.all = fits /\ o.best = bestFit
  /\ forecast # NoForecast =>
       forecast = ForecastOf(bestFit.model, forecastPeriod, parsed.time)

ResultsChain ==
  /\ forecast # NoForecast => bestFit # NoFit
  /\ bestFit # NoFit => parsed # NoParsed /\ fits # <<>>
  /\ fits # <<>> => bestFit # NoFit

SameCall(x, y) ==
  /\ x.call = y.call
  /\ IF x.call = "generateForecast"
     THEN x.args = y.args
     ELSE x.time = y.time /\ x.rates = y.rates

=============================================================================
